---- MODULE Spec2Model ----
(***************************************************************************)
(* A model of the HolyC++ value types: the type-safe Union wrapper         *)
(* (union.hpp) and the fixed-width integers SInt<Bits> / UInt<Bits>        *)
(* (signed_int.hpp, unsigned_int.hpp).                                     *)
(*                                                                         *)
(* Union part.  Two union types of the test-suite are modelled:            *)
(*   Ex = Union<I32, U8>        (ExampleUnion, trivially copyable members) *)
(*   N  = Union<Ex, F64>        (NestedUnion, member 0 has a user-provided *)
(*                               copy constructor and destructor)          *)
(* A union object is a record [active_type, data, live]:                   *)
(*   active_type  the tag of the code,                                     *)
(*   data         an image of the byte buffer,                             *)
(*   live         instrumentation: the member index of the object whose    *)
(*                lifetime was started in the buffer (placement new) and   *)
(*                not yet ended (destructor call), -1 when there is none.  *)
(* The instrumentation is written only by the lifetime events, never by    *)
(* the assignments to the tag, so that the two can be compared.            *)
(***************************************************************************)
EXTENDS Integers, Sequences, FiniteSets, TLC

VARIABLES su,      \* su[s]: the Union<Ex, F64> object in variable s
          alive,   \* the variables whose Union object is constructed and not destroyed
          nlive,   \* payload objects whose lifetime has started and not ended
          faults,  \* lifetime errors seen so far
          last,    \* the operation that produced this state, with its pre-state
          ret,     \* what the last get<T>() / is<T>() returned
          calc,    \* operator harness: type, operands, operation, result
          tv,      \* a Value object (union.hpp) and the last call on it
          em       \* the ErrorManager singleton (error.hpp)

vars == <<su, alive, nlive, faults, last, ret, calc, tv, em>>

\* ------------------------------------------------------------------ bounds
MaxVal == 2   \* payload values 1..MaxVal
Near == 3     \* integer operands within Near of MIN, 0, MAX and of the square root of MAX
Reach == 1    \* operands of the operators: within Reach of every limit, of 0 and of the widths
Exp32 == 1    \* binary exponents of the finite float values: -Exp32..Exp32
ExpMore == 1  \* the exponents of double reach ExpMore beyond those of float
MaxDiag == 3  \* the caller reports at most MaxDiag diagnostics between two clear()
MaxLimit == 2 \* setMaxErrors(n) for n in 1..MaxLimit
MaxDepth == 3 \* activations of report() the stack holds

Vals == 1..MaxVal
Slots == {"a", "b"}

\* ------------------------------------------------------- Union: the types
\* Types...: the template parameter pack of each modelled union type.
Types(U) == IF U = "N" THEN <<"Ex", "F64">> ELSE <<"I32", "U8">>

RECURSIVE type_index_impl(_, _)
type_index_impl(T, Ts) ==
    IF T = Head(Ts) THEN 0
    ELSE IF Len(Tail(Ts)) > 0 THEN 1 + type_index_impl(T, Tail(Ts))
    ELSE -1

get_type_index(U, T) == type_index_impl(T, Types(U))

\* Uninitialised bytes of an Ex buffer, and an Ex object read out of bytes
\* that never held one.
RawData == [k |-> "raw", v |-> 0]
RawEx == [active_type |-> -1, data |-> RawData, live |-> -1]

\* alignas(max_align()) unsigned char data[max_size()], as constructed.
Raw(U) == IF U = "N" THEN [k |-> "raw", v |-> 0, u |-> RawEx] ELSE RawData

\* The bytes of a T holding `value` (a number, or an Ex object for T = "Ex").
Img(U, T, value) ==
    IF U = "N"
    THEN IF T = "Ex" THEN [k |-> "Ex", v |-> 0, u |-> value]
                     ELSE [k |-> T, v |-> value, u |-> RawEx]
    ELSE [k |-> T, v |-> value]

\* What memcpy carries: the bytes, without the lifetime of the object in them.
Bytes(U, d) == IF U = "N" THEN [d EXCEPT !.u.live = -1] ELSE d

\* The data member of an Ex constructed in place over the bytes d.
Placement(d) == IF d.k = "Ex" THEN d.u.data ELSE RawData

\* A freshly default-constructed union: int active_type = -1.
Fresh(U) == [active_type |-> -1, data |-> Raw(U), live |-> -1]

\* An object together with the instrumentation: g.nl live payload objects,
\* g.f lifetime errors, g.ev constructor and destructor calls of this operation.
W(u, g) == [u |-> u, g |-> g]

\* ----------------------------------------------- lifetime instrumentation
\* new(data) T(...): the lifetime of a member I object starts in the buffer.
BeginLife(I, w) ==
    W([w.u EXCEPT !.live = I],
      [nl |-> w.g.nl + 1,
       f |-> w.g.f \cup (IF w.u.live # -1 THEN {"leak"} ELSE {}),
       ev |-> w.g.ev + 1])

\* reinterpret_cast<T*>(data)->~T() with T = member I.
EndLife(I, w) ==
    W([w.u EXCEPT !.live = -1],
      [nl |-> IF w.u.live # -1 THEN w.g.nl - 1 ELSE w.g.nl,
       f |-> w.g.f \cup (IF w.u.live = -1 THEN {"double_destroy"}
                         ELSE IF w.u.live # I THEN {"wrong_dtor"} ELSE {}),
       ev |-> w.g.ev + 1])

\* std::memcpy(data, src, Size()) over the buffer of w.u.
Memcpy(U, d, w) ==
    W([w.u EXCEPT !.data = d, !.live = -1],
      [w.g EXCEPT !.f = @ \cup (IF w.u.live # -1 THEN {"leak"} ELSE {})])

\* ------------------------------------------------------ Union: operations
RECURSIVE reset(_, _)

\* The destructor of member I run on the buffer of w.u.
PayloadDtor(U, I, w) ==
    LET body == IF Types(U)[I + 1] = "Ex"
                THEN LET r == reset("Ex", W(w.u.data.u, w.g))   \* ~Union()
                     IN W([w.u EXCEPT !.data.u = r.u],
                          [r.g EXCEPT !.f = @ \cup (IF r.u.live # -1 THEN {"leak"}
                                                    ELSE {})])
                ELSE w
    IN EndLife(I, body)

RECURSIVE destroy_impl(_, _, _)
destroy_impl(U, I, w) ==
    IF w.u.active_type = I THEN PayloadDtor(U, I, w)
    ELSE IF I + 1 < Len(Types(U)) THEN destroy_impl(U, I + 1, w)
    ELSE w

\* destroy_active() that runs no destructor.
destroy_active_none(U, w) == w

destroy_active(U, w) == destroy_impl(U, 0, w)

\* reset() without active_type = -1.
reset_keeps_tag(U, w) ==
    IF w.u.active_type >= 0 THEN destroy_active(U, w) ELSE w

reset(U, w) ==
    IF w.u.active_type >= 0
    THEN LET d == destroy_active(U, w) IN [d EXCEPT !.u.active_type = -1]
    ELSE w

RECURSIVE copy_from(_, _, _, _)

\* Union(const Union& other) run on storage whose bytes are `bytes`.
UnionCopyCtor(U, bytes, other, ub, g) ==
    LET w0 == W([active_type |-> -1, data |-> bytes, live |-> -1], g)
    IN IF other.active_type >= 0 THEN copy_from(U, other, ub, w0) ELSE w0

\* new(data) T(*reinterpret_cast<const T*>(data)): member I copy-constructed
\* from the bytes it is constructed over.  For T = Ex the constructor's
\* argument aliases the object under construction: its read of
\* other.active_type sees either the default member initialiser's -1 or the
\* tag that was in the bytes (ub).
SelfCopy(U, I, ub, w) ==
    LET b == BeginLife(I, w) IN
    IF Types(U)[I + 1] = "Ex"
    THEN LET old == w.u.data.u
             seen == IF ub = "init_first" THEN -1 ELSE old.active_type
             r == UnionCopyCtor("Ex", old.data, [old EXCEPT !.active_type = seen],
                                ub, b.g)
         IN W([b.u EXCEPT !.data.u = r.u], r.g)
    ELSE b

RECURSIVE construct_impl(_, _, _, _)
construct_impl(U, I, ub, w) ==
    IF w.u.active_type = I THEN SelfCopy(U, I, ub, w)
    ELSE IF I + 1 < Len(Types(U)) THEN construct_impl(U, I + 1, ub, w)
    ELSE w

construct_active(U, ub, w) == construct_impl(U, 0, ub, w)

copy_from(U, other, ub, w) ==
    LET m == Memcpy(U, Bytes(U, other.data), w)
        a == [m EXCEPT !.u.active_type = other.active_type]
    IN IF a.u.active_type >= 0 THEN construct_active(U, ub, a) ELSE a

\* new(data) T(value), value an object distinct from the buffer.
PayloadCopy(U, I, value, ub, w) ==
    LET b == BeginLife(I, w) IN
    IF Types(U)[I + 1] = "Ex"
    THEN LET r == UnionCopyCtor("Ex", Placement(w.u.data), value, ub, b.g)
         IN W([b.u EXCEPT !.data = Img(U, "Ex", r.u)], r.g)
    ELSE W([b.u EXCEPT !.data = Img(U, Types(U)[I + 1], value)], b.g)

\* set() without the reset() of the old payload.
set_no_reset(U, T, value, ub, w) ==
    LET c == PayloadCopy(U, get_type_index(U, T), value, ub, w)
    IN [c EXCEPT !.u.active_type = get_type_index(U, T)]

set(U, T, value, ub, w) ==
    LET r == reset(U, w)
        c == PayloadCopy(U, get_type_index(U, T), value, ub, r)
    IN [c EXCEPT !.u.active_type = get_type_index(U, T)]

\* move_from() without active_type = other.active_type.
move_from_no_tag(U, this, other, g) ==
    LET m == Memcpy(U, other.data, W(this, g))
    IN [this |-> [m.u EXCEPT !.live = other.live],
        other |-> [other EXCEPT !.active_type = -1, !.data = Bytes(U, other.data),
                                !.live = -1],
        g |-> m.g]

\* move_from(Union&& other): the object in other's buffer is relocated.
move_from(U, this, other, g) ==
    LET m == Memcpy(U, other.data, W(this, g))
    IN [this |-> [m.u EXCEPT !.active_type = other.active_type, !.live = other.live],
        other |-> [other EXCEPT !.active_type = -1, !.data = Bytes(U, other.data),
                                !.live = -1],
        g |-> m.g]

is(U, T, u) == u.active_type = get_type_index(U, T)

active(u) == u.active_type

\* get<T>() that checks the tag only when the union is not empty.
get_unchecked_empty(U, T, u) ==
    IF u.active_type >= 0 /\ u.active_type # get_type_index(U, T)
    THEN [err |-> "WrongActiveType", b |-> FALSE, val |-> Raw(U)]
    ELSE [err |-> "", b |-> FALSE, val |-> u.data]

\* get<T>(): throws std::runtime_error("Wrong active type in union") or
\* returns *reinterpret_cast<T*>(data).
get(U, T, u) ==
    IF u.active_type # get_type_index(U, T)
    THEN [err |-> "WrongActiveType", b |-> FALSE, val |-> Raw(U)]
    ELSE [err |-> "", b |-> FALSE, val |-> u.data]

\* --------------------------------------------------- Union: state machine
\* The values a caller passes to set(): temporaries, as images of an N buffer.
ExHolding(T, v) ==
    [active_type |-> get_type_index("Ex", T), data |-> Img("Ex", T, v),
     live |-> get_type_index("Ex", T)]

ExValues == {Fresh("Ex")} \cup {ExHolding(T, v) : T \in {"I32", "U8"}, v \in Vals}

Args == {Img("N", "F64", v) : v \in Vals} \cup {Img("N", "Ex", e) : e \in ExValues}

ArgValue(arg) == IF arg.k = "Ex" THEN arg.u ELSE arg.v

\* The outcomes of the aliased read in construct_impl.
UBChoices == {"init_first", "tag_first"}

\* set() copies from an object distinct from the buffer, and the members of
\* Ex are scalars: no aliased read happens on that path.
NoAlias == "init_first"

\* The record of an operation: its name, receiver, source and argument, the
\* state it started from, the number of payload constructor and destructor
\* calls it made, and the member type of the set() that directly preceded it
\* on the same receiver ("-" when there was none).
Op(op, dst, src, arg, ev) ==
    [op |-> op, dst |-> dst, src |-> src, arg |-> arg,
     pre |-> su, palive |-> alive, pnl |-> nlive, ev |-> ev,
     after |-> IF last.op = "set" /\ last.dst = dst THEN last.arg.k ELSE "-"]

NoRet == [err |-> "", b |-> FALSE, val |-> Raw("N")]
NoCalc == [op |-> "none", bits |-> 8, sgn |-> FALSE, a |-> 0, b |-> 0,
           err |-> "", val |-> 0, haz |-> {}]

\* Value() : type(-1), f(0.0): the discriminant, the member of the anonymous
\* union that was written last and what was written to it.
Value_default == [type |-> -1, member |-> 0, data |-> 0]

NoValue == [obj |-> Value_default, op |-> "none", k |-> -1, arg |-> 0,
            err |-> "", res |-> 0, pre |-> Value_default,
            wrote |-> [k |-> -1, v |-> 0]]

\* A default-constructed ErrorManager: no diagnostics, maxErrors = 100.
DefaultMaxErrors == 100
ErrorManager_default ==
    [errors |-> <<>>, warningCount |-> 0, errorCount |-> 0, fatalCount |-> 0,
     warningsAsErrors |-> FALSE, suppressWarnings |-> FALSE,
     maxErrors |-> DefaultMaxErrors]

Severities == {"NOTE", "WARNING", "ERROR", "FATAL"}

\* The singleton m and the call in progress: depth counts the activations
\* of report() that have not returned, crashed is set when the stack is
\* exhausted.  op, severity, message and pre describe the caller's last
\* call and the manager before it; asked counts the caller's reports by
\* severity since the last clear(), appended the diagnostics the manager
\* added by itself during the last call, moved whether maxErrors was set
\* since the last clear().
NoManager == [m |-> ErrorManager_default, depth |-> 0, crashed |-> FALSE,
              op |-> "none", severity |-> "NOTE", message |-> "",
              pre |-> ErrorManager_default,
              asked |-> [v \in Severities |-> 0], appended |-> 0,
              moved |-> FALSE]

Init ==
    /\ su = [s \in Slots |-> Fresh("N")]
    /\ alive = {}
    /\ nlive = 0
    /\ faults = {}
    /\ last = [op |-> "init", dst |-> "a", src |-> "a", arg |-> Raw("N"),
               pre |-> [s \in Slots |-> Fresh("N")], palive |-> {}, pnl |-> 0,
               ev |-> 0, after |-> "-"]
    /\ ret = NoRet
    /\ tv = NoValue
    /\ em = NoManager
    /\ calc = NoCalc

Commit(s, w, op, src, arg) ==
    /\ su' = [su EXCEPT ![s] = w.u]
    /\ nlive' = w.g.nl
    /\ faults' = w.g.f
    /\ last' = Op(op, s, src, arg, w.g.ev)
    /\ ret' = NoRet
    /\ UNCHANGED <<calc, tv, em>>

G0 == [nl |-> nlive, f |-> faults, ev |-> 0]

Here(s) == W(su[s], G0)

\* Union() = default
Construct(s) ==
    /\ s \notin alive
    /\ alive' = alive \cup {s}
    /\ Commit(s, W(Fresh("N"), G0), "construct", s, Raw("N"))

\* template<typename T> Union(const T& value) { set(value); }
ConstructFrom(s, arg) ==
    /\ s \notin alive
    /\ alive' = alive \cup {s}
    /\ Commit(s, set("N", arg.k, ArgValue(arg), NoAlias, W(Fresh("N"), G0)),
              "construct_from", s, arg)

\* Union(const Union& other)
CopyConstruct(s, o) ==
    /\ s \notin alive /\ o \in alive
    /\ alive' = alive \cup {s}
    /\ \E ub \in UBChoices :
         Commit(s, UnionCopyCtor("N", Raw("N"), su[o], ub, G0),
                "copy_construct", o, Raw("N"))

\* Union(Union&& other) noexcept
MoveConstruct(s, o) ==
    /\ s \notin alive /\ o \in alive
    /\ alive' = alive \cup {s}
    /\ LET m == IF su[o].active_type >= 0
                THEN LET r == move_from("N", Fresh("N"), su[o], G0)
                     IN [r EXCEPT !.other.active_type = -1]
                ELSE [this |-> Fresh("N"), other |-> su[o], g |-> G0]
       IN /\ su' = [su EXCEPT ![s] = m.this, ![o] = m.other]
          /\ nlive' = m.g.nl
          /\ faults' = m.g.f
          /\ last' = Op("move_construct", s, o, Raw("N"), m.g.ev)
    /\ ret' = NoRet
    /\ UNCHANGED <<calc, tv, em>>

\* ~Union() { reset(); }  The variable's storage is released afterwards.
Destroy(s) ==
    /\ s \in alive
    /\ alive' = alive \ {s}
    /\ LET r == reset("N", Here(s))
       IN Commit(s, W(Fresh("N"),
                      [r.g EXCEPT !.f = @ \cup (IF r.u.live # -1 THEN {"leak"}
                                                ELSE {})]),
                 "destroy", s, Raw("N"))

Set(s, arg) ==
    /\ s \in alive
    /\ Commit(s, set("N", arg.k, ArgValue(arg), NoAlias, Here(s)), "set", s, arg)
    /\ UNCHANGED alive

Reset(s) ==
    /\ s \in alive
    /\ Commit(s, reset("N", Here(s)), "reset", s, Raw("N"))
    /\ UNCHANGED alive

\* operator=(const Union&) without the this != &other test: other is read
\* after the reset() of the receiver.
CopyAssign_no_self_check(s, o) ==
    /\ s \in alive /\ o \in alive
    /\ \E ub \in UBChoices :
         LET r == reset("N", Here(s))
             other == IF s = o THEN r.u ELSE su[o]
             c == IF other.active_type >= 0 THEN copy_from("N", other, ub, r) ELSE r
         IN Commit(s, c, "copy_assign", o, Raw("N"))
    /\ UNCHANGED alive

\* Union& operator=(const Union& other)
CopyAssign(s, o) ==
    /\ s \in alive /\ o \in alive
    /\ \E ub \in UBChoices :
         LET r == reset("N", Here(s))
             c == IF su[o].active_type >= 0 THEN copy_from("N", su[o], ub, r) ELSE r
         IN Commit(s, IF s # o THEN c ELSE Here(s), "copy_assign", o, Raw("N"))
    /\ UNCHANGED alive

\* Union& operator=(Union&& other) noexcept
MoveAssign(s, o) ==
    /\ s \in alive /\ o \in alive
    /\ LET r == reset("N", Here(s))
           m == IF s = o
                THEN [this |-> su[s], other |-> su[o], g |-> G0]
                ELSE IF su[o].active_type >= 0
                THEN LET v == move_from("N", r.u, su[o], r.g)
                     IN [v EXCEPT !.other.active_type = -1]
                ELSE [this |-> r.u, other |-> su[o], g |-> r.g]
       IN /\ su' = [su EXCEPT ![o] = m.other, ![s] = m.this]
          /\ nlive' = m.g.nl
          /\ faults' = m.g.f
          /\ last' = Op("move_assign", s, o, Raw("N"), m.g.ev)
    /\ ret' = NoRet
    /\ UNCHANGED <<alive, calc, tv, em>>

Get(s, T) ==
    /\ s \in alive
    /\ ret' = get("N", T, su[s])
    /\ last' = Op("get", s, s, Img("N", T, IF T = "Ex" THEN RawEx ELSE 0), 0)
    /\ UNCHANGED <<su, alive, nlive, faults, calc, tv, em>>

Is(s, T) ==
    /\ s \in alive
    /\ ret' = [err |-> "", b |-> is("N", T, su[s]), val |-> Raw("N")]
    /\ last' = Op("is", s, s, Img("N", T, IF T = "Ex" THEN RawEx ELSE 0), 0)
    /\ UNCHANGED <<su, alive, nlive, faults, calc, tv, em>>

\* u.get<Ex>().set(T(v)): the nested union is reached through the reference
\* get<Ex>() returns.
InnerSet(s, T, v) ==
    /\ s \in alive
    /\ get("N", "Ex", su[s]).err = ""
    /\ LET r == set("Ex", T, v, NoAlias, W(su[s].data.u, G0))
       IN Commit(s, W([su[s] EXCEPT !.data.u = r.u], r.g), "inner_set", s,
                 Img("N", "Ex", ExHolding(T, v)))
    /\ UNCHANGED alive

\* u.get<Ex>().reset()
InnerReset(s) ==
    /\ s \in alive
    /\ get("N", "Ex", su[s]).err = ""
    /\ LET r == reset("Ex", W(su[s].data.u, G0))
       IN Commit(s, W([su[s] EXCEPT !.data.u = r.u], r.g), "inner_reset", s,
                 Raw("N"))
    /\ UNCHANGED alive

Next ==
    \/ \E s \in Slots : Construct(s)
    \/ \E s \in Slots, arg \in Args : ConstructFrom(s, arg)
    \/ \E s, o \in Slots : CopyConstruct(s, o)
    \/ \E s, o \in Slots : MoveConstruct(s, o)
    \/ \E s \in Slots : Destroy(s)
    \/ \E s \in Slots, arg \in Args : Set(s, arg)
    \/ \E s \in Slots : Reset(s)
    \/ \E s, o \in Slots : CopyAssign(s, o)
    \/ \E s, o \in Slots : MoveAssign(s, o)
    \/ \E s \in Slots, T \in {"Ex", "F64"} : Get(s, T)
    \/ \E s \in Slots, T \in {"Ex", "F64"} : Is(s, T)
    \/ \E s \in Slots, T \in {"I32", "U8"}, v \in Vals : InnerSet(s, T, v)
    \/ \E s \in Slots : InnerReset(s)

Spec == Init /\ [][Next]_vars

\* ------------------------------------------------------ Union: the claims
\* The payload objects whose lifetime has started and not ended, in u.
Count(u) ==
    (IF u.live # -1 THEN 1 ELSE 0) + (IF u.data.u.live # -1 THEN 1 ELSE 0)

RECURSIVE LiveObjects(_)
LiveObjects(S) ==
    IF S = {} THEN 0
    ELSE LET s == CHOOSE x \in S : TRUE IN Count(su[s]) + LiveObjects(S \ {s})

\* The position of T in the member list of U, counted from 0.
IndexOf(U, T) == CHOOSE i \in 0..(Len(Types(U)) - 1) : Types(U)[i + 1] = T

\* active = i: exactly one live object, of member type Ti, in the buffer;
\* active = -1: no live object in the buffer.
RECURSIVE TagMatchesBuffer(_, _)
TagMatchesBuffer(U, u) ==
    /\ u.active_type \in -1..(Len(Types(U)) - 1)
    /\ u.live = u.active_type
    /\ u.active_type >= 0 => u.data.k = Types(U)[u.active_type + 1]
    /\ U = "N" =>
         IF u.active_type = IndexOf("N", "Ex")
         THEN TagMatchesBuffer("Ex", u.data.u)
         ELSE u.data.u.live = -1

\* Two Ex values are equal: the same active member holding the same value.
ExEqual(e1, e2) ==
    /\ e1.active_type = e2.active_type
    /\ e1.active_type >= 0 => e1.data = e2.data

\* Two payloads of an N are equal.
PayloadEqual(d1, d2) ==
    /\ d1.k = d2.k
    /\ d1.k = "F64" => d1.v = d2.v
    /\ d1.k = "Ex" => ExEqual(d1.u, d2.u)

\* C1: in every reachable state, whenever active() = i the buffer holds
\* exactly one live object and it is of member type Ti, whenever
\* active() = -1 it holds none; no payload is destroyed twice, destroyed
\* through another member's destructor, or overwritten while live, and the
\* payloads alive are exactly those the constructed unions hold, so that
\* none is left once every union is destroyed.
C1_TagAndLifetime ==
    /\ \A s \in alive : TagMatchesBuffer("N", su[s])
    /\ \A s \in Slots \ alive : su[s] = Fresh("N")
    /\ faults = {}
    /\ nlive = LiveObjects(alive)
    /\ alive = {} => nlive = 0

C1_Witness ==
    /\ last.op = "destroy"
    /\ alive = {}
    /\ last.pre[last.dst].active_type = IndexOf("N", "Ex")
    /\ last.pre[last.dst].data.u.active_type >= 0
    /\ last.ev = 2
    /\ last.pnl = 2
    /\ nlive = 0

\* C2: a default-constructed union is Empty; after set<A>(x) directly
\* followed by set<B>(y) on the same union with A # B, the A payload was
\* destroyed before y was constructed, is<A>() is false, is<B>() is true,
\* active() = index_of(B), get<A>() fails with WrongActiveType and get<B>()
\* returns y; after set<A>(x) followed by set<A>(y), get<A>() returns y.
C2_SetThenSet ==
    /\ last.op = "construct" => active(su[last.dst]) = -1
    /\ (last.op = "set" /\ last.after # "-") =>
         LET A == last.after
             B == last.arg.k
             u == su[last.dst]
         IN /\ get("N", B, u).err = ""
            /\ PayloadEqual(get("N", B, u).val, last.arg)
            /\ "leak" \notin faults
            /\ nlive = last.pnl - Count(last.pre[last.dst]) + Count(u)
            /\ A # B =>
                 /\ ~is("N", A, u)
                 /\ is("N", B, u)
                 /\ active(u) = IndexOf("N", B)
                 /\ get("N", A, u).err = "WrongActiveType"

C2_Witness ==
    /\ last.op = "set"
    /\ last.after = "Ex"
    /\ last.arg.k = "F64"
    /\ last.pre[last.dst].data.u.active_type >= 0
    /\ last.ev = 3
    /\ get("N", "F64", su[last.dst]).val.v = last.arg.v

\* C3: get<T>() fails with WrongActiveType exactly when active() differs
\* from index_of(T), the Empty union included, and otherwise returns the
\* live payload; failing or not it changes nothing.  is<T>() never fails, is
\* true exactly when get<T>() would succeed, and holds for at most one T.
C3_GetAndIs ==
    /\ last.op = "get" =>
         LET T == last.arg.k
             u == last.pre[last.dst]
         IN /\ ret.err = "WrongActiveType" <=> active(u) # IndexOf("N", T)
            /\ ret.err \in {"", "WrongActiveType"}
            /\ ret.err = "" => /\ ret.val = u.data
                               /\ u.live = IndexOf("N", T)
                               /\ ret.val.k = T
    /\ last.op = "is" =>
         /\ ret.err = ""
         /\ ret.b <=> get("N", last.arg.k, last.pre[last.dst]).err = ""
    /\ last.op \in {"get", "is"} =>
         /\ su = last.pre /\ alive = last.palive /\ nlive = last.pnl
         /\ last.ev = 0
    /\ \A s \in alive : Cardinality({T \in {"Ex", "F64"} : is("N", T, su[s])}) <= 1

C3_Witness ==
    /\ last.op = "get"
    /\ last.arg.k = "F64"
    /\ active(su[last.dst]) = -1
    /\ ret.err = "WrongActiveType"

\* C4 (as claimed): copy-constructing or copy-assigning from a source that
\* holds a value v of member type A yields a destination with is<A>() true
\* and get<A>() equal to v, for every member type, a nested union that holds
\* a value included; the source is unchanged, and a payload the destination
\* held before is destroyed before the copy is made.
C4_CopyYieldsEqualValue ==
    (/\ last.op \in {"copy_construct", "copy_assign"}
     /\ last.src # last.dst
     /\ last.pre[last.src].active_type >= 0) =>
        LET from == last.pre[last.src]
            A == Types("N")[from.active_type + 1]
            d == su[last.dst]
        IN /\ is("N", A, d)
           /\ get("N", A, d).err = ""
           /\ PayloadEqual(get("N", A, d).val, from.data)
           /\ su[last.src] = from
           /\ "leak" \notin faults

\* C5: a move (construction or assignment) from a source holding v of member
\* type A leaves the destination holding v and the source Empty; the moved
\* payload is not destroyed by the move and is destroyed once, by the
\* destination; the destination's former payload is destroyed once; a move
\* from an Empty source leaves both Empty.
C5_MoveTransfers ==
    (last.op \in {"move_construct", "move_assign"} /\ last.src # last.dst) =>
        LET from == last.pre[last.src]
            d == su[last.dst]
            o == su[last.src]
            dd == reset("N", W(d, G0))
        IN /\ active(o) = -1
           /\ o.live = -1
           /\ faults = {}
           /\ from.active_type >= 0 =>
                /\ is("N", Types("N")[from.active_type + 1], d)
                /\ get("N", Types("N")[from.active_type + 1], d).val = from.data
                /\ d.live = from.live
           /\ from.active_type = -1 => active(d) = -1
           /\ nlive = last.pnl - Count(last.pre[last.dst])
           /\ last.ev = Count(last.pre[last.dst])
           /\ reset("N", W(o, G0)).g = G0
           /\ dd.g = [nl |-> nlive - Count(d), f |-> {}, ev |-> Count(d)]

C5_Witness ==
    /\ last.op = "move_assign"
    /\ last.src # last.dst
    /\ last.pre[last.src].active_type = IndexOf("N", "Ex")
    /\ last.pre[last.src].data.u.active_type >= 0
    /\ last.pre[last.dst].active_type >= 0
    /\ su[last.dst].data.u.live >= 0
    /\ active(su[last.src]) = -1

\* C6: assigning a union to itself, by copy or by move, changes neither the
\* tag nor the payload and runs no payload constructor or destructor.
C6_SelfAssignNoOp ==
    (last.op \in {"copy_assign", "move_assign"} /\ last.src = last.dst) =>
        /\ su = last.pre
        /\ alive = last.palive
        /\ nlive = last.pnl
        /\ last.ev = 0
        /\ faults = {}

C6_Witness ==
    /\ last.op = "copy_assign"
    /\ last.src = last.dst
    /\ su[last.dst].active_type = IndexOf("N", "Ex")
    /\ su[last.dst].data.u.active_type >= 0

\* C7: reset() on a union holding a payload destroys it and leaves the union
\* Empty, after which is<T>() is false and get<T>() fails for every T;
\* reset() on an Empty union changes nothing, so a second reset() has no
\* further effect.
C7_Reset ==
    last.op = "reset" =>
        LET p == last.pre[last.dst]
            u == su[last.dst]
        IN /\ active(u) = -1
           /\ u.live = -1
           /\ \A T \in {"Ex", "F64"} :
                ~is("N", T, u) /\ get("N", T, u).err = "WrongActiveType"
           /\ faults = {}
           /\ nlive = last.pnl - Count(p)
           /\ last.ev = Count(p)
           /\ p.active_type = -1 => su = last.pre
           /\ reset("N", Here(last.dst)) = Here(last.dst)

C7_Witness ==
    /\ last.op = "reset"
    /\ last.pre[last.dst].active_type = IndexOf("N", "Ex")
    /\ last.pre[last.dst].data.u.active_type >= 0
    /\ active(su[last.dst]) = -1
    /\ last.ev = 2

\* ================================================================ integers
\* SInt<Bits> and UInt<Bits>.  A type is [bits, sgn]; the widths modelled
\* are 8 and 16, whose operands the language promotes to int before any
\* arithmetic or comparison, and, where an operation is modelled for it,
\* SInt<32>, whose storage type is int itself.
INT8_MIN == -128
INT8_MAX == 127
INT16_MIN == -32768
INT16_MAX == 32767
UINT8_MAX == 255
UINT16_MAX == 65535
INT32_MAX == 2147483647
INT32_MIN == -INT32_MAX - 1

Widths == {8, 16}
IntTypes == [bits : Widths, sgn : BOOLEAN]

\* int, the type storage_type operands are promoted to.
NativeInt == [bits |-> 32, sgn |-> TRUE]

\* MIN taken as the negation of MAX.
SInt_MIN_symmetric(Bits) ==
    IF Bits = 8 THEN -INT8_MAX ELSE IF Bits = 16 THEN -INT16_MAX ELSE -INT32_MAX

SInt_MIN(Bits) ==
    IF Bits = 8 THEN INT8_MIN ELSE IF Bits = 16 THEN INT16_MIN ELSE INT32_MIN

SInt_MAX(Bits) ==
    IF Bits = 8 THEN INT8_MAX ELSE IF Bits = 16 THEN INT16_MAX ELSE INT32_MAX

UInt_MIN(Bits) == 0
UInt_MAX(Bits) == IF Bits = 8 THEN UINT8_MAX ELSE UINT16_MAX

MIN(T) == IF T.sgn THEN SInt_MIN(T.bits) ELSE UInt_MIN(T.bits)
MAX(T) == IF T.sgn THEN SInt_MAX(T.bits) ELSE UInt_MAX(T.bits)

Abs(x) == IF x < 0 THEN -x ELSE x

\* x / y of the language: the quotient truncated toward zero (y # 0, and
\* not INT32_MIN / -1, which has no value).
CDiv(x, y) ==
    IF x = INT32_MIN \/ y = INT32_MIN
    THEN IF y = INT32_MIN THEN (IF x = INT32_MIN THEN 1 ELSE 0)
         ELSE LET f == x \div y            \* rounded down
              IN IF y > 0 /\ x % y # 0 THEN f + 1 ELSE f
    ELSE IF (x < 0) = (y < 0) THEN Abs(x) \div Abs(y) ELSE -(Abs(x) \div Abs(y))

\* x % y of the language: the remainder matching CDiv.
CRem(x, y) == x - CDiv(x, y) * y

\* static_cast<T>(x) for an integer type T: x modulo 2^bits, in T's range.
\* Every value of the model is already an int.
Cast(T, x) ==
    IF T = NativeInt THEN x
    ELSE LET m == x % (2 ^ T.bits)
         IN IF T.sgn /\ m >= 2 ^ (T.bits - 1) THEN m - 2 ^ T.bits ELSE m

Ok(v) == [err |-> "", val |-> v, haz |-> {}]
Fail(e) == [err |-> e, val |-> 0, haz |-> {}]

\* UInt::check_bounds<T>(val), T a native integer type: the failure, or "".
UInt_check_bounds(Bits, T, val) ==
    IF T.sgn /\ val < 0 THEN "NegativeToUnsigned"
    ELSE IF T.bits > Bits /\ val > Cast(T, UInt_MAX(Bits)) THEN "OutOfRange"
    ELSE ""

\* SInt::check_bounds<T>(val), T a native integer type: the failure, or "".
SInt_check_bounds(Bits, T, val) ==
    IF (T.bits > Bits \/ ~T.sgn)
       /\ (val < Cast(T, SInt_MIN(Bits)) \/ val > Cast(T, SInt_MAX(Bits)))
    THEN "OutOfRange"
    ELSE ""

\* UInt(T val) / SInt(T val): the converting constructors the results of
\* the int-typed expressions value + other.value etc. go through.
UInt_from_int(Bits, val) ==
    IF UInt_check_bounds(Bits, NativeInt, val) # ""
    THEN Fail(UInt_check_bounds(Bits, NativeInt, val))
    ELSE Ok(Cast([bits |-> Bits, sgn |-> FALSE], val))

SInt_from_int(Bits, val) ==
    IF SInt_check_bounds(Bits, NativeInt, val) # ""
    THEN Fail(SInt_check_bounds(Bits, NativeInt, val))
    ELSE Ok(Cast([bits |-> Bits, sgn |-> TRUE], val))

UInt_checked_add(Bits, value, other) ==
    IF value > UInt_MAX(Bits) - other THEN Fail("Overflow")
    ELSE UInt_from_int(Bits, value + other)

\* checked_sub comparing with <= instead of <.
UInt_checked_sub_le(Bits, value, other) ==
    IF value <= other THEN Fail("Underflow")
    ELSE UInt_from_int(Bits, value - other)

UInt_checked_sub(Bits, value, other) ==
    IF value < other THEN Fail("Underflow")
    ELSE UInt_from_int(Bits, value - other)

\* The divisions an overflow test evaluates, as <<dividend, divisor>> pairs
\* in evaluation order, are reported in haz when they divide by zero or are
\* MIN / -1.
Hazard(T, x, y) ==
    IF y = 0 THEN {"div_by_zero"}
    ELSE IF x = MIN(T) /\ y = -1 THEN {"min_div_minus_one"}
    ELSE {}

\* x / y where the code evaluates it; 0 stands for the value of a division
\* that has none.
Quot(x, y) == IF y = 0 THEN 0 ELSE CDiv(x, y)

\* checked_mul without the other.value != 0 test.
UInt_checked_mul_no_zero_test(Bits, value, other) ==
    LET T == [bits |-> Bits, sgn |-> FALSE]
        r == IF value > Quot(UInt_MAX(Bits), other)
             THEN Fail("Overflow")
             ELSE UInt_from_int(Bits, value * other)
    IN [r EXCEPT !.haz = Hazard(T, UInt_MAX(Bits), other)]

UInt_checked_mul(Bits, value, other) ==
    LET T == [bits |-> Bits, sgn |-> FALSE]
        evaluated == other # 0
        haz == IF evaluated THEN Hazard(T, UInt_MAX(Bits), other) ELSE {}
        r == IF other # 0 /\ value > Quot(UInt_MAX(Bits), other)
             THEN Fail("Overflow")
             ELSE UInt_from_int(Bits, value * other)
    IN [r EXCEPT !.haz = haz]

\* checked_add without the test for a negative other.value.
SInt_checked_add_pos_only(Bits, value, other) ==
    IF other > 0 /\ value > SInt_MAX(Bits) - other
    THEN Fail("Overflow")
    ELSE SInt_from_int(Bits, value + other)

SInt_checked_add(Bits, value, other) ==
    IF \/ (other > 0 /\ value > SInt_MAX(Bits) - other)
       \/ (other < 0 /\ value < SInt_MIN(Bits) - other)
    THEN Fail("Overflow")
    ELSE SInt_from_int(Bits, value + other)

SInt_checked_sub(Bits, value, other) ==
    IF \/ (other < 0 /\ value > SInt_MAX(Bits) + other)
       \/ (other > 0 /\ value < SInt_MIN(Bits) + other)
    THEN Fail("Overflow")
    ELSE SInt_from_int(Bits, value - other)

SInt_checked_mul(Bits, value, other) ==
    LET T == [bits |-> Bits, sgn |-> TRUE]
        mn == SInt_MIN(Bits)
        mx == SInt_MAX(Bits)
        e1 == value > 0 /\ other > 0
        t1 == e1 /\ value > Quot(mx, other)
        e2 == ~t1 /\ value > 0 /\ other < 0
        t2 == e2 /\ other < Quot(mn, value)
        e3 == ~t1 /\ ~t2 /\ value < 0 /\ other > 0
        t3 == e3 /\ value < Quot(mn, other)
        e4 == ~t1 /\ ~t2 /\ ~t3 /\ value < 0 /\ other < 0
        t4 == e4 /\ value < Quot(mx, other)
        haz == (IF e1 THEN Hazard(T, mx, other) ELSE {})
               \cup (IF e2 THEN Hazard(T, mn, value) ELSE {})
               \cup (IF e3 THEN Hazard(T, mn, other) ELSE {})
               \cup (IF e4 THEN Hazard(T, mx, other) ELSE {})
        r == IF t1 \/ t2 \/ t3 \/ t4 THEN Fail("Overflow")
             ELSE SInt_from_int(Bits, value * other)
    IN [r EXCEPT !.haz = haz]

checked_add(T, a, b) ==
    IF T.sgn THEN SInt_checked_add(T.bits, a, b) ELSE UInt_checked_add(T.bits, a, b)

checked_sub(T, a, b) ==
    IF T.sgn THEN SInt_checked_sub(T.bits, a, b) ELSE UInt_checked_sub(T.bits, a, b)

checked_mul(T, a, b) ==
    IF T.sgn THEN SInt_checked_mul(T.bits, a, b) ELSE UInt_checked_mul(T.bits, a, b)

\* ------------------------------------------------------- integer harness
\* The integer square root of MAX(T).
ISqrtMax(T) ==
    CHOOSE r \in 0..(2 ^ (T.bits \div 2)) : r * r <= MAX(T) /\ (r + 1) * (r + 1) > MAX(T)

\* The operands tried for type T: the values within Near of MIN, of 0, of
\* MAX, of half of MIN and MAX and of plus and minus the square root of MAX.
Samples(T) ==
    LET r == ISqrtMax(T)
        around == {MIN(T), 0, MAX(T), MAX(T) \div 2, -(MAX(T) \div 2), r, -r}
    IN {x \in UNION {(c - Near)..(c + Near) : c \in around} :
          MIN(T) <= x /\ x <= MAX(T)}

InitInt ==
    /\ su = [s \in Slots |-> Fresh("N")]
    /\ alive = {}
    /\ nlive = 0
    /\ faults = {}
    /\ last = [op |-> "init", dst |-> "a", src |-> "a", arg |-> Raw("N"),
               pre |-> [s \in Slots |-> Fresh("N")], palive |-> {}, pnl |-> 0,
               ev |-> 0, after |-> "-"]
    /\ ret = NoRet
    /\ tv = NoValue
    /\ em = NoManager
    /\ \E T \in IntTypes : \E a, b \in Samples(T) :
         calc = [op |-> "none", bits |-> T.bits, sgn |-> T.sgn, a |-> a, b |-> b,
                 err |-> "", val |-> 0, haz |-> {}]

CalcType == [bits |-> calc.bits, sgn |-> calc.sgn]

Apply(op, r) ==
    /\ calc.op = "none"
    /\ calc' = [calc EXCEPT !.op = op, !.err = r.err, !.val = r.val, !.haz = r.haz]
    /\ UNCHANGED <<su, alive, nlive, faults, last, ret, tv, em>>

CheckedAdd == Apply("checked_add", checked_add(CalcType, calc.a, calc.b))
CheckedSub == Apply("checked_sub", checked_sub(CalcType, calc.a, calc.b))
CheckedMul == Apply("checked_mul", checked_mul(CalcType, calc.a, calc.b))

NextInt ==
    \/ CheckedAdd
    \/ CheckedSub
    \/ CheckedMul

SpecInt == InitInt /\ [][NextInt]_vars

\* ------------------------------------------------- integers: the claims
InRange(T, x) == MIN(T) <= x /\ x <= MAX(T)

\* m * n for m, n >= 0 by doubling, saturated at cap + 1.
RECURSIVE SatMul(_, _, _)
SatMul(m, n, cap) ==
    IF n = 0 THEN 0
    ELSE LET h == SatMul(m, n \div 2, cap)
             d == IF h + h > cap THEN cap + 1 ELSE h + h
             t == IF n % 2 = 1 THEN d + m ELSE d
         IN IF t > cap THEN cap + 1 ELSE t

\* The mathematical product a * b, exact whenever it lies within the range
\* of a modelled type and outside every such range otherwise.
Product(a, b) ==
    LET m == SatMul(Abs(a), Abs(b), 2 ^ 17)
    IN IF (a < 0) # (b < 0) THEN -m ELSE m

\* C8: checked_add fails with Overflow exactly when the mathematical sum
\* a + b lies outside [MIN, MAX], and otherwise returns a + b.
C8_CheckedAdd ==
    calc.op = "checked_add" =>
        /\ calc.err = "Overflow" <=> ~InRange(CalcType, calc.a + calc.b)
        /\ calc.err \in {"", "Overflow"}
        /\ calc.err = "" => calc.val = calc.a + calc.b

C8_Witness ==
    /\ calc.op = "checked_add"
    /\ calc.bits = 16 /\ calc.sgn
    /\ calc.a = MAX(CalcType) /\ calc.b = 1
    /\ calc.err = "Overflow"

\* C9: checked_sub fails exactly when the mathematical difference a - b lies
\* outside [MIN, MAX], with Underflow for the unsigned types and Overflow for
\* the signed ones, and otherwise returns a - b.
C9_CheckedSub ==
    calc.op = "checked_sub" =>
        /\ calc.err # "" <=> ~InRange(CalcType, calc.a - calc.b)
        /\ calc.err \in {"", IF calc.sgn THEN "Overflow" ELSE "Underflow"}
        /\ ~calc.sgn => (calc.err = "Underflow" <=> calc.a < calc.b)
        /\ calc.err = "" => calc.val = calc.a - calc.b

C9_Witness ==
    /\ calc.op = "checked_sub"
    /\ calc.bits = 8 /\ calc.sgn
    /\ calc.a = MIN(CalcType) /\ calc.b = 1
    /\ calc.err = "Overflow"

\* C10: checked_mul fails with Overflow exactly when the mathematical
\* product a * b lies outside [MIN, MAX] and otherwise returns a * b, in each
\* sign combination; with a zero operand it returns zero; its overflow test
\* never divides by zero and never evaluates MIN / -1.
C10_CheckedMul ==
    calc.op = "checked_mul" =>
        /\ calc.err = "Overflow" <=> ~InRange(CalcType, Product(calc.a, calc.b))
        /\ calc.err \in {"", "Overflow"}
        /\ calc.err = "" => calc.val = Product(calc.a, calc.b)
        /\ (calc.a = 0 \/ calc.b = 0) => (calc.err = "" /\ calc.val = 0)
        /\ calc.haz = {}

C10_Witness ==
    /\ calc.op = "checked_mul"
    /\ calc.sgn
    /\ calc.a = MIN(CalcType) /\ calc.b = -1
    /\ calc.err = "Overflow"
    /\ calc.haz = {}

\* ===================================================== integer operators
\* The unchecked operators, division, shifts, comparisons and conversions
\* of SInt<Bits> / UInt<Bits>.  A result is [err, val, self, flag, haz]:
\*   err   the failure thrown ("" for none), or "Trap" when the operation has
\*         undefined behaviour and the build stops the program there,
\*   val   the value of the object returned,
\*   self  the receiver's stored value after the call,
\*   flag  the bool returned by a comparison,
\*   haz   the undefined behaviour the call ran into.
\* An expression with undefined behaviour has one of UBOutcomes: the
\* program is stopped (-ftrapv, SIGFPE, a sanitizer), or the machine's
\* two's-complement result is used.
UBOutcomes == {"trap", "wrap"}

I32 == [bits |-> 32, sgn |-> TRUE]
OpTypes == IntTypes \cup {I32}

\* signed char, unsigned char, short, unsigned short, int.
NativeTypes == [bits : {8, 16}, sgn : BOOLEAN] \cup {NativeInt}

Res(err, val, self) ==
    [err |-> err, val |-> val, self |-> self, flag |-> FALSE, haz |-> {}]

\* The outcome of an int-typed expression with undefined behaviour h whose
\* two's-complement value, converted to T, is w.
Undefined(h, ub, T, w, self) ==
    [err |-> IF ub = "trap" THEN "Trap" ELSE "", val |-> IF ub = "trap" THEN 0 ELSE w,
     self |-> self, flag |-> FALSE, haz |-> {h}]

\* x + y, x - y, x * y on int operands: whether the mathematical result is
\* outside int.
AddOverflows(x, y) ==
    (y > 0 /\ x > INT32_MAX - y) \/ (y < 0 /\ x < INT32_MIN - y)

SubOverflows(x, y) ==
    (y < 0 /\ x > INT32_MAX + y) \/ (y > 0 /\ x < INT32_MIN + y)

\* For operands of at most 16 bits, the only ones multiplied here.
MulOverflows(x, y) ==
    x # 0 /\ y # 0 /\ Abs(x) > INT32_MAX \div Abs(y)

\* The two's-complement int that a wrapping x + y, x - y produces.
WrapAdd(x, y) ==
    IF ~AddOverflows(x, y) THEN x + y
    ELSE IF y > 0 THEN (x - INT32_MAX - 1) + (y - INT32_MAX - 1)
    ELSE (x + INT32_MAX + 1) + (y + INT32_MAX + 1)

WrapSub(x, y) ==
    IF ~SubOverflows(x, y) THEN x - y
    ELSE IF y < 0 THEN (x - INT32_MAX - 1) - (y + INT32_MAX + 1)
    ELSE (x + INT32_MAX + 1) - (y - INT32_MAX - 1)

\* The low T.bits bits (T.bits <= 16) of a wrapping x * y, as a value of T:
\* x is split into its low byte and the rest so that no partial product
\* leaves int.
WrapMulLow(T, x, y) ==
    IF ~MulOverflows(x, y) THEN Cast(T, x * y)
    ELSE LET m == 2 ^ 16
             xl == x % 256
             xh == (x - xl) \div 256
             yl == y % m
         IN Cast(T, (((xh * yl) % 256) * 256 + xl * yl) % m)

\* operator+ / operator- / operator*:
\*   return T(static_cast<storage_type>(value OP other.value));
plus(T, value, other, ub) ==
    IF AddOverflows(value, other)
    THEN Undefined("int_overflow", ub, T, Cast(T, WrapAdd(value, other)), value)
    ELSE Res("", Cast(T, value + other), value)

minus(T, value, other, ub) ==
    IF SubOverflows(value, other)
    THEN Undefined("int_overflow", ub, T, Cast(T, WrapSub(value, other)), value)
    ELSE Res("", Cast(T, value - other), value)

times(T, value, other, ub) ==
    IF MulOverflows(value, other)
    THEN Undefined("int_overflow", ub, T, WrapMulLow(T, value, other), value)
    ELSE Res("", Cast(T, value * other), value)

\* ---------------------------------------------------- division and modulo
SType(Bits) == [bits |-> Bits, sgn |-> TRUE]
UType(Bits) == [bits |-> Bits, sgn |-> FALSE]

\* value / other.value or value % other.value has no value in int.
NoQuotient(value, other) == value = INT32_MIN /\ other = -1

SInt_div(Bits, value, other) ==
    IF other = 0 THEN Res("DivideByZero", 0, value)
    ELSE IF value = SInt_MIN(Bits) /\ other = -1 THEN Res("Overflow", 0, value)
    ELSE Res("", Cast(SType(Bits), CDiv(value, other)), value)

SInt_mod(Bits, value, other, ub) ==
    IF other = 0 THEN Res("DivideByZero", 0, value)
    ELSE IF NoQuotient(value, other)
    THEN Undefined("min_mod_minus_one", ub, SType(Bits), 0, value)
    ELSE Res("", Cast(SType(Bits), CRem(value, other)), value)

SInt_div_assign(Bits, value, other) ==
    IF other = 0 THEN Res("DivideByZero", 0, value)
    ELSE IF value = SInt_MIN(Bits) /\ other = -1 THEN Res("Overflow", 0, value)
    ELSE LET q == Cast(SType(Bits), CDiv(value, other)) IN Res("", q, q)

SInt_mod_assign(Bits, value, other, ub) ==
    IF other = 0 THEN Res("DivideByZero", 0, value)
    ELSE IF NoQuotient(value, other)
    THEN Undefined("min_mod_minus_one", ub, SType(Bits), 0,
                   IF ub = "trap" THEN value ELSE 0)
    ELSE LET r == Cast(SType(Bits), CRem(value, other)) IN Res("", r, r)

UInt_div(Bits, value, other) ==
    IF other = 0 THEN Res("DivideByZero", 0, value)
    ELSE Res("", Cast(UType(Bits), CDiv(value, other)), value)

UInt_mod(Bits, value, other) ==
    IF other = 0 THEN Res("DivideByZero", 0, value)
    ELSE Res("", Cast(UType(Bits), CRem(value, other)), value)

\* UInt::operator%(T other) for a native integer other.
UInt_mod_native(Bits, value, other) ==
    IF other = 0 THEN Res("DivideByZero", 0, value)
    ELSE Res("", Cast(UType(Bits), CRem(value, other)), value)

UInt_div_assign(Bits, value, other) ==
    IF other = 0 THEN Res("DivideByZero", 0, value)
    ELSE LET q == Cast(UType(Bits), CDiv(value, other)) IN Res("", q, q)

\* operator%= that stores before it tests the divisor.
UInt_mod_assign_store_first(Bits, value, other) ==
    IF other = 0 THEN Res("DivideByZero", 0, 0)
    ELSE LET r == Cast(UType(Bits), CRem(value, other)) IN Res("", r, r)

UInt_mod_assign(Bits, value, other) ==
    IF other = 0 THEN Res("DivideByZero", 0, value)
    ELSE LET r == Cast(UType(Bits), CRem(value, other)) IN Res("", r, r)

\* ------------------------------------------------------------------ shifts
\* The two's-complement int of x << k, 0 <= k < 32.
RECURSIVE Shl32(_, _)
Shl32(x, k) == IF k = 0 THEN x ELSE LET h == Shl32(x, k - 1) IN WrapAdd(h, h)

\* x >> k on int, 0 <= k < 32: the arithmetic shift.
Shr32(x, k) == IF k = 31 THEN (IF x < 0 THEN -1 ELSE 0) ELSE x \div (2 ^ k)

\* x << k is undefined on int: x is negative, or x * 2^k does not fit the
\* corresponding unsigned type.
ShlUndefined(x, k) == x < 0 \/ (k >= 2 /\ x >= 2 ^ (32 - k))

\* The shift the machine performs for an amount outside 0..31.
Masked(k) == k % 32

UInt_shl(Bits, value, other) ==
    IF other >= Bits THEN Res("ShiftOutOfRange", 0, value)
    ELSE Res("", Cast(UType(Bits), Shl32(value, other)), value)

UInt_shr(Bits, value, other) ==
    IF other >= Bits THEN Res("ShiftOutOfRange", 0, value)
    ELSE Res("", Cast(UType(Bits), Shr32(value, other)), value)

UInt_shl_assign(Bits, value, other) ==
    IF other >= Bits THEN Res("ShiftOutOfRange", 0, value)
    ELSE LET r == Cast(UType(Bits), Shl32(value, other)) IN Res("", r, r)

UInt_shr_assign(Bits, value, other) ==
    IF other >= Bits THEN Res("ShiftOutOfRange", 0, value)
    ELSE LET r == Cast(UType(Bits), Shr32(value, other)) IN Res("", r, r)

\* operator<<(T shift), operator>>(T shift) for a native integer T = N.
UInt_shl_native(Bits, N, value, shift, ub) ==
    IF shift >= Cast(N, Bits) THEN Res("ShiftOutOfRange", 0, value)
    ELSE IF shift < 0
    THEN Undefined("negative_shift", ub, UType(Bits),
                   Cast(UType(Bits), Shl32(value, Masked(shift))), value)
    ELSE Res("", Cast(UType(Bits), Shl32(value, shift)), value)

UInt_shr_native(Bits, N, value, shift, ub) ==
    IF shift >= Cast(N, Bits) THEN Res("ShiftOutOfRange", 0, value)
    ELSE IF shift < 0
    THEN Undefined("negative_shift", ub, UType(Bits),
                   Cast(UType(Bits), Shr32(value, Masked(shift))), value)
    ELSE Res("", Cast(UType(Bits), Shr32(value, shift)), value)

\* value << k for a signed value, after the range test on k.
SInt_shifted_left(Bits, value, k, ub, store) ==
    LET r == Cast(SType(Bits), Shl32(value, k)) IN
    IF ShlUndefined(value, k)
    THEN Undefined("signed_left_shift", ub, SType(Bits), r,
                   IF store /\ ub # "trap" THEN r ELSE value)
    ELSE Res("", r, IF store THEN r ELSE value)

SInt_shifted_right(Bits, value, k, store) ==
    LET r == Cast(SType(Bits), Shr32(value, k))
    IN Res("", r, IF store THEN r ELSE value)

SInt_shl(Bits, value, other, ub) ==
    IF other < 0 \/ other >= Cast(SType(Bits), Bits)
    THEN Res("ShiftOutOfRange", 0, value)
    ELSE SInt_shifted_left(Bits, value, other, ub, FALSE)

SInt_shr(Bits, value, other) ==
    IF other < 0 \/ other >= Cast(SType(Bits), Bits)
    THEN Res("ShiftOutOfRange", 0, value)
    ELSE SInt_shifted_right(Bits, value, other, FALSE)

SInt_shl_native(Bits, N, value, shift, ub) ==
    IF shift < 0 \/ shift >= Cast(N, Bits) THEN Res("ShiftOutOfRange", 0, value)
    ELSE SInt_shifted_left(Bits, value, shift, ub, FALSE)

SInt_shr_native(Bits, N, value, shift) ==
    IF shift < 0 \/ shift >= Cast(N, Bits) THEN Res("ShiftOutOfRange", 0, value)
    ELSE SInt_shifted_right(Bits, value, shift, FALSE)

SInt_shl_assign(Bits, value, other, ub) ==
    IF other < 0 \/ other >= Cast(SType(Bits), Bits)
    THEN Res("ShiftOutOfRange", 0, value)
    ELSE SInt_shifted_left(Bits, value, other, ub, TRUE)

SInt_shr_assign(Bits, value, other) ==
    IF other < 0 \/ other >= Cast(SType(Bits), Bits)
    THEN Res("ShiftOutOfRange", 0, value)
    ELSE SInt_shifted_right(Bits, value, other, TRUE)

\* ------------------------------------- bitwise and compound assignment
\* x & y, x | y, x ^ y on int operands in two's complement, bit by bit
\* from the lowest: x = 2 * (x \div 2) + x % 2 with x % 2 the lowest bit,
\* and 0 and -1 the words of all zeros and all ones.
RECURSIVE BitAnd(_, _)
BitAnd(x, y) ==
    IF x = 0 \/ y = 0 THEN 0
    ELSE IF x = -1 THEN y
    ELSE IF y = -1 THEN x
    ELSE 2 * BitAnd(x \div 2, y \div 2) + ((x % 2) * (y % 2))

RECURSIVE BitOr(_, _)
BitOr(x, y) ==
    IF x = 0 THEN y
    ELSE IF y = 0 THEN x
    ELSE IF x = -1 \/ y = -1 THEN -1
    ELSE 2 * BitOr(x \div 2, y \div 2) + (IF (x % 2) = 1 \/ (y % 2) = 1 THEN 1 ELSE 0)

RECURSIVE BitXor(_, _)
BitXor(x, y) ==
    IF x = 0 THEN y
    ELSE IF y = 0 THEN x
    ELSE IF x = -1 THEN -1 - y
    ELSE IF y = -1 THEN -1 - x
    ELSE 2 * BitXor(x \div 2, y \div 2) + (((x % 2) + (y % 2)) % 2)

\* operator& / operator| / operator^:
\*   return T(static_cast<storage_type>(value OP other.value));
bit_and(T, value, other) == Res("", Cast(T, BitAnd(value, other)), value)
bit_or(T, value, other) == Res("", Cast(T, BitOr(value, other)), value)
bit_xor(T, value, other) == Res("", Cast(T, BitXor(value, other)), value)

\* operator&= / operator|= / operator^=:  value OP= other.value;
\* the int result is converted to storage_type by the assignment.
and_assign(T, value, other) ==
    LET r == Cast(T, BitAnd(value, other)) IN Res("", r, r)
or_assign(T, value, other) ==
    LET r == Cast(T, BitOr(value, other)) IN Res("", r, r)
xor_assign(T, value, other) ==
    LET r == Cast(T, BitXor(value, other)) IN Res("", r, r)

\* An int-typed expression with undefined behaviour h whose result is
\* stored in the receiver: a stopped program stores nothing.
UndefinedStore(h, ub, T, w, value) ==
    Undefined(h, ub, T, w, IF ub = "trap" THEN value ELSE w)

\* operator+= that stores the int sum without converting it.
plus_assign_unnarrowed(T, value, other, ub) ==
    IF AddOverflows(value, other)
    THEN UndefinedStore("int_overflow", ub, T, Cast(T, WrapAdd(value, other)), value)
    ELSE Res("", value + other, value + other)

\* operator+= / operator-= / operator*=:  value OP= other.value;
plus_assign(T, value, other, ub) ==
    IF AddOverflows(value, other)
    THEN UndefinedStore("int_overflow", ub, T, Cast(T, WrapAdd(value, other)), value)
    ELSE LET r == Cast(T, value + other) IN Res("", r, r)

minus_assign(T, value, other, ub) ==
    IF SubOverflows(value, other)
    THEN UndefinedStore("int_overflow", ub, T, Cast(T, WrapSub(value, other)), value)
    ELSE LET r == Cast(T, value - other) IN Res("", r, r)

times_assign(T, value, other, ub) ==
    IF MulOverflows(value, other)
    THEN UndefinedStore("int_overflow", ub, T, WrapMulLow(T, value, other), value)
    ELSE LET r == Cast(T, value * other) IN Res("", r, r)

\* The compound operators, each named by the plain operator it is made of.
CompoundOps == {"+", "-", "*", "/", "%", "&", "|", "^", "<<", ">>"}

\* x op y for operands of the same type T.
Plain(T, op, value, other, ub) ==
    CASE op = "+" -> plus(T, value, other, ub)
      [] op = "-" -> minus(T, value, other, ub)
      [] op = "*" -> times(T, value, other, ub)
      [] op = "/" -> IF T.sgn THEN SInt_div(T.bits, value, other)
                     ELSE UInt_div(T.bits, value, other)
      [] op = "%" -> IF T.sgn THEN SInt_mod(T.bits, value, other, ub)
                     ELSE UInt_mod(T.bits, value, other)
      [] op = "&" -> bit_and(T, value, other)
      [] op = "|" -> bit_or(T, value, other)
      [] op = "^" -> bit_xor(T, value, other)
      [] op = "<<" -> IF T.sgn THEN SInt_shl(T.bits, value, other, ub)
                      ELSE UInt_shl(T.bits, value, other)
      [] op = ">>" -> IF T.sgn THEN SInt_shr(T.bits, value, other)
                      ELSE UInt_shr(T.bits, value, other)

\* x op= y for operands of the same type T.
Compound(T, op, value, other, ub) ==
    CASE op = "+" -> plus_assign(T, value, other, ub)
      [] op = "-" -> minus_assign(T, value, other, ub)
      [] op = "*" -> times_assign(T, value, other, ub)
      [] op = "/" -> IF T.sgn THEN SInt_div_assign(T.bits, value, other)
                     ELSE UInt_div_assign(T.bits, value, other)
      [] op = "%" -> IF T.sgn THEN SInt_mod_assign(T.bits, value, other, ub)
                     ELSE UInt_mod_assign(T.bits, value, other)
      [] op = "&" -> and_assign(T, value, other)
      [] op = "|" -> or_assign(T, value, other)
      [] op = "^" -> xor_assign(T, value, other)
      [] op = "<<" -> IF T.sgn THEN SInt_shl_assign(T.bits, value, other, ub)
                      ELSE UInt_shl_assign(T.bits, value, other)
      [] op = ">>" -> IF T.sgn THEN SInt_shr_assign(T.bits, value, other)
                      ELSE UInt_shr_assign(T.bits, value, other)

\* ------------------------------------------------------------- comparisons
CmpOps == {"==", "!=", "<", "<=", ">", ">="}

\* The built-in comparison of two int values.
Compare(op, x, y) ==
    CASE op = "==" -> x = y
      [] op = "!=" -> x # y
      [] op = "<" -> x < y
      [] op = "<=" -> x <= y
      [] op = ">" -> x > y
      [] op = ">=" -> x >= y

Flag(b, value) ==
    [err |-> "", val |-> 0, self |-> value, flag |-> b, haz |-> {}]

\* bool operator OP(const T& other) const
compare(T, op, value, other) == Flag(Compare(op, value, other), value)

\* Comparison with a native operand that omits the static_cast.
compare_native_uncast(T, op, value, other) ==
    Flag(Compare(op, value, other), value)

\* template<typename N> bool operator OP(N other) const:
\*   value OP static_cast<storage_type>(other)
compare_native(T, op, value, other) ==
    Flag(Compare(op, value, Cast(T, other)), value)

\* ------------------------------------------------------------- conversions
\* The source of a conversion is R = [kind, bits, sgn]: a BoundedInt
\* ("bounded": SInt<bits> / UInt<bits>) or a native integer ("native").
Bounded(T) == [kind |-> "bounded", bits |-> T.bits, sgn |-> T.sgn]
Native(T) == [kind |-> "native", bits |-> T.bits, sgn |-> T.sgn]
TypeOf(R) == [bits |-> R.bits, sgn |-> R.sgn]

\* template<typename T> SInt(T val), T signed and not storage_type;
\* explicit SInt(storage_type val) otherwise.
SInt_from_signed(Bits, N, val) ==
    IF N.bits = Bits THEN Res("", val, val)
    ELSE IF SInt_check_bounds(Bits, N, val) # ""
    THEN Res(SInt_check_bounds(Bits, N, val), 0, 0)
    ELSE LET v == Cast(SType(Bits), val) IN Res("", v, v)

\* template<typename T> SInt(T val), T unsigned.
SInt_from_unsigned(Bits, N, val) ==
    IF val > Cast(N, SInt_MAX(Bits)) THEN Res("OutOfRange", 0, 0)
    ELSE LET v == Cast(SType(Bits), val) IN Res("", v, v)

\* The constructor comparing with >= instead of >.
SInt_from_UInt_ge(Bits, OtherBits, raw_val) ==
    IF raw_val >= Cast(UType(OtherBits), SInt_MAX(Bits)) THEN Res("OutOfRange", 0, 0)
    ELSE LET v == Cast(SType(Bits), raw_val) IN Res("", v, v)

\* SInt(const UInt<OtherBits>& other)
SInt_from_UInt(Bits, OtherBits, raw_val) ==
    IF raw_val > Cast(UType(OtherBits), SInt_MAX(Bits)) THEN Res("OutOfRange", 0, 0)
    ELSE LET v == Cast(SType(Bits), raw_val) IN Res("", v, v)

\* SInt<Bits> x(other), other an SInt<OtherBits>: no constructor takes an
\* SInt of another width, so other converts through operator storage_type()
\* and the integral conversion to explicit SInt(storage_type).
SInt_from_SInt(Bits, OtherBits, raw_val) ==
    LET v == Cast(SType(Bits), raw_val) IN Res("", v, v)

\* template<typename T> UInt(T val), T signed.
UInt_from_signed(Bits, N, val) ==
    IF UInt_check_bounds(Bits, N, val) # ""
    THEN Res(UInt_check_bounds(Bits, N, val), 0, 0)
    ELSE LET v == Cast(UType(Bits), val) IN Res("", v, v)

\* template<typename T> UInt(T val), T unsigned and not storage_type;
\* UInt(storage_type val) otherwise.
UInt_from_unsigned(Bits, N, val) ==
    IF N.bits = Bits THEN Res("", val, val)
    ELSE IF UInt_check_bounds(Bits, N, val) # ""
    THEN Res(UInt_check_bounds(Bits, N, val), 0, 0)
    ELSE LET v == Cast(UType(Bits), val) IN Res("", v, v)

\* UInt(const UInt<OtherBits>& other)
UInt_from_UInt(Bits, OtherBits, raw) ==
    IF OtherBits > Bits /\ UInt_check_bounds(Bits, UType(OtherBits), raw) # ""
    THEN Res(UInt_check_bounds(Bits, UType(OtherBits), raw), 0, 0)
    ELSE LET v == Cast(UType(Bits), raw) IN Res("", v, v)

\* UInt(const SInt<OtherBits>& other)
UInt_from_SInt(Bits, OtherBits, raw_val) ==
    IF raw_val < 0 THEN Res("NegativeToUnsigned", 0, 0)
    ELSE IF OtherBits > Bits /\ UInt_check_bounds(Bits, SType(OtherBits), raw_val) # ""
    THEN Res(UInt_check_bounds(Bits, SType(OtherBits), raw_val), 0, 0)
    ELSE LET v == Cast(UType(Bits), raw_val) IN Res("", v, v)

\* T x(src): the constructor overload resolution selects for a source of
\* type R (R # Bounded(T): that is the copy constructor).
construct(T, R, src) ==
    IF T.sgn
    THEN IF R.kind = "bounded"
         THEN IF R.sgn THEN SInt_from_SInt(T.bits, R.bits, src)
              ELSE SInt_from_UInt(T.bits, R.bits, src)
         ELSE IF R.sgn THEN SInt_from_signed(T.bits, TypeOf(R), src)
              ELSE SInt_from_unsigned(T.bits, TypeOf(R), src)
    ELSE IF R.kind = "bounded"
         THEN IF R.sgn THEN UInt_from_SInt(T.bits, R.bits, src)
              ELSE UInt_from_UInt(T.bits, R.bits, src)
         ELSE IF R.sgn THEN UInt_from_signed(T.bits, TypeOf(R), src)
              ELSE UInt_from_unsigned(T.bits, TypeOf(R), src)

\* static_cast<R>(limit) inside check_bounds<R>, limit a storage_type value
\* of T: a native R converts, a BoundedInt R is constructed from it.
LimitAs(T, R, limit) ==
    IF R.kind = "native" THEN Res("", Cast(TypeOf(R), limit), 0)
    ELSE construct(TypeOf(R), Native(T), limit)

\* SInt::check_bounds<R>(val) as instantiated by operator=(R val): the
\* failure, or "".
SInt_assign_check(Bits, R, val) ==
    LET T == SType(Bits)
        lo == LimitAs(T, R, SInt_MIN(Bits))
        hi == LimitAs(T, R, SInt_MAX(Bits))
    IN IF ~(R.bits > Bits \/ (R.kind = "native" /\ ~R.sgn)) THEN ""
       ELSE IF lo.err # "" THEN lo.err
       ELSE IF val < lo.val THEN "OutOfRange"
       ELSE IF hi.err # "" THEN hi.err
       ELSE IF val > hi.val THEN "OutOfRange"
       ELSE ""

\* UInt::check_bounds<R>(val) as instantiated by operator=(R val).
UInt_assign_check(Bits, R, val) ==
    LET T == UType(Bits)
        hi == LimitAs(T, R, UInt_MAX(Bits))
    IN IF R.kind = "native" /\ R.sgn /\ val < 0 THEN "NegativeToUnsigned"
       ELSE IF ~(R.bits > Bits) THEN ""
       ELSE IF hi.err # "" THEN hi.err
       ELSE IF val > hi.val THEN "OutOfRange"
       ELSE ""

\* x = val for a val of type R (R # Bounded(T)): operator=(storage_type)
\* for the storage type itself, and otherwise the template
\*   check_bounds(val); value = static_cast<storage_type>(val);
assign(T, R, value, val) ==
    LET c == IF R = Native(T) THEN ""
             ELSE IF T.sgn THEN SInt_assign_check(T.bits, R, val)
             ELSE UInt_assign_check(T.bits, R, val)
    IN IF c # "" THEN Res(c, 0, value)
       ELSE Res("", Cast(T, val), Cast(T, val))

\* --------------------------------------------------- the operator harness
\* The landmarks operands are taken around: zero, a small divisor, the bit
\* widths (as shift amounts) and the limits of every modelled type.
Landmarks ==
    {0, 3, 8, 16, 32, INT8_MIN, INT8_MAX, UINT8_MAX, INT16_MIN, INT16_MAX, UINT16_MAX}

\* The values of type T tried as operands.
Operands(T) ==
    {x \in UNION {(c - Reach)..(c + Reach) : c \in Landmarks} :
        MIN(T) <= x /\ x <= MAX(T)}
    \cup (IF T.bits = 32
          THEN {INT32_MIN + i : i \in 0..Reach} \cup {INT32_MAX - i : i \in 0..Reach}
          ELSE {})

\* The types of a right-hand operand.
RhsTypes == {Bounded(T) : T \in OpTypes} \cup {Native(N) : N \in NativeTypes}

NoFlags == [op \in CmpOps |-> FALSE]

\* ---------------------------------------------------------------- limits
\* The limits of the types whose values exceed 32 bits, UInt<32>, SInt<64>
\* and UInt<64>, are written as the two's-complement image of the value in
\* 16-bit limbs, most significant first.
UINT32_MAX == <<65535, 65535>>
INT64_MIN == <<32768, 0, 0, 0>>
INT64_MAX == <<32767, 65535, 65535, 65535>>
UINT64_MAX == <<65535, 65535, 65535, 65535>>

AllTypes == [bits : {8, 16, 32, 64}, sgn : BOOLEAN]
Wide(T) == T.bits = 64 \/ (T.bits = 32 /\ ~T.sgn)
ZeroLimbs(T) == [i \in 1..(T.bits \div 16) |-> 0]

\* static constexpr storage_type MIN, MAX of SInt<Bits> and UInt<Bits>.
ClassMIN(T) ==
    IF T.sgn THEN (IF T.bits = 64 THEN INT64_MIN ELSE SInt_MIN(T.bits))
    ELSE IF Wide(T) THEN ZeroLimbs(T) ELSE UInt_MIN(T.bits)

ClassMAX(T) ==
    IF T.sgn THEN (IF T.bits = 64 THEN INT64_MAX ELSE SInt_MAX(T.bits))
    ELSE IF T.bits = 64 THEN UINT64_MAX
    ELSE IF T.bits = 32 THEN UINT32_MAX
    ELSE UInt_MAX(T.bits)

\* const I8 I8_MIN = I8(INT8_MIN); ... const U64 U64_MAX = UINT64_MAX;
\* The initialiser of a wide type has the storage type and is stored as it
\* is (a wide 0 passes check_bounds); the others are int values that go
\* through the converting constructor.
GlobalConstant(T, limit) ==
    IF Wide(T) THEN Res("", limit, limit)
    ELSE construct(T, Native(NativeInt), limit)

NoLimits == [bits |-> 0, sgn |-> FALSE, min |-> 0, max |-> 0,
             gmin |-> 0, gmax |-> 0, err |-> ""]

\* Two calls made on the same operands: which operator, and what each call
\* returned or threw.
NoPair == [op |-> "", first |-> Res("", 0, 0), second |-> Res("", 0, 0)]

\* A receiver x of type [bits, sgn] holding a, and a right-hand operand of
\* type [rk, rbits, rsgn] holding b; no operation applied yet.
InitOps ==
    /\ su = [s \in Slots |-> Fresh("N")]
    /\ alive = {}
    /\ nlive = 0
    /\ faults = {}
    /\ last = [op |-> "init", dst |-> "a", src |-> "a", arg |-> Raw("N"),
               pre |-> [s \in Slots |-> Fresh("N")], palive |-> {}, pnl |-> 0,
               ev |-> 0, after |-> "-"]
    /\ ret = NoRet
    /\ tv = NoValue
    /\ em = NoManager
    /\ \E T \in OpTypes, R \in RhsTypes :
         \E a \in Operands(T), b \in Operands(TypeOf(R)) :
           calc = [op |-> "none", bits |-> T.bits, sgn |-> T.sgn, a |-> a,
                   rk |-> R.kind, rbits |-> R.bits, rsgn |-> R.sgn, b |-> b,
                   err |-> "", val |-> 0, self |-> a, flags |-> NoFlags,
                   mid |-> 0, haz |-> {}, lim |-> NoLimits, pair |-> NoPair]

RhsType == [kind |-> calc.rk, bits |-> calc.rbits, sgn |-> calc.rsgn]
SameType == RhsType = Bounded(CalcType)
NativeRhs == calc.rk = "native"

\* The call x.op(y) / x op y has returned or thrown r.
Did(op, r) ==
    /\ calc.op = "none"
    /\ calc' = [calc EXCEPT !.op = op, !.err = r.err, !.val = r.val,
                            !.self = r.self, !.haz = r.haz]
    /\ UNCHANGED <<su, alive, nlive, faults, last, ret, tv, em>>

Plus ==
    /\ SameType
    /\ \E ub \in UBOutcomes : Did("+", plus(CalcType, calc.a, calc.b, ub))

Minus ==
    /\ SameType
    /\ \E ub \in UBOutcomes : Did("-", minus(CalcType, calc.a, calc.b, ub))

\* The product of two SInt<32> is not modelled.
Times ==
    /\ SameType /\ calc.bits <= 16
    /\ \E ub \in UBOutcomes : Did("*", times(CalcType, calc.a, calc.b, ub))

Divide ==
    /\ SameType
    /\ Did("/", IF calc.sgn THEN SInt_div(calc.bits, calc.a, calc.b)
                ELSE UInt_div(calc.bits, calc.a, calc.b))

Modulo ==
    /\ SameType
    /\ \E ub \in UBOutcomes :
         Did("%", IF calc.sgn THEN SInt_mod(calc.bits, calc.a, calc.b, ub)
                  ELSE UInt_mod(calc.bits, calc.a, calc.b))

ModuloNative ==
    /\ NativeRhs /\ ~calc.sgn
    /\ Did("%n", UInt_mod_native(calc.bits, calc.a, calc.b))

DivideAssign ==
    /\ SameType
    /\ Did("/=", IF calc.sgn THEN SInt_div_assign(calc.bits, calc.a, calc.b)
                 ELSE UInt_div_assign(calc.bits, calc.a, calc.b))

ModuloAssign ==
    /\ SameType
    /\ \E ub \in UBOutcomes :
         Did("%=", IF calc.sgn THEN SInt_mod_assign(calc.bits, calc.a, calc.b, ub)
                   ELSE UInt_mod_assign(calc.bits, calc.a, calc.b))

ShiftLeft ==
    /\ SameType
    /\ \E ub \in UBOutcomes :
         Did("<<", IF calc.sgn THEN SInt_shl(calc.bits, calc.a, calc.b, ub)
                   ELSE UInt_shl(calc.bits, calc.a, calc.b))

ShiftRight ==
    /\ SameType
    /\ Did(">>", IF calc.sgn THEN SInt_shr(calc.bits, calc.a, calc.b)
                 ELSE UInt_shr(calc.bits, calc.a, calc.b))

ShiftLeftNative ==
    /\ NativeRhs
    /\ \E ub \in UBOutcomes :
         Did("<<n", IF calc.sgn
                    THEN SInt_shl_native(calc.bits, TypeOf(RhsType), calc.a, calc.b, ub)
                    ELSE UInt_shl_native(calc.bits, TypeOf(RhsType), calc.a, calc.b, ub))

ShiftRightNative ==
    /\ NativeRhs
    /\ \E ub \in UBOutcomes :
         Did(">>n", IF calc.sgn
                    THEN SInt_shr_native(calc.bits, TypeOf(RhsType), calc.a, calc.b)
                    ELSE UInt_shr_native(calc.bits, TypeOf(RhsType), calc.a, calc.b, ub))

ShiftLeftAssign ==
    /\ SameType
    /\ \E ub \in UBOutcomes :
         Did("<<=", IF calc.sgn THEN SInt_shl_assign(calc.bits, calc.a, calc.b, ub)
                    ELSE UInt_shl_assign(calc.bits, calc.a, calc.b))

ShiftRightAssign ==
    /\ SameType
    /\ Did(">>=", IF calc.sgn THEN SInt_shr_assign(calc.bits, calc.a, calc.b)
                  ELSE UInt_shr_assign(calc.bits, calc.a, calc.b))

\* The six comparison operators applied to the same pair of operands.
Comparisons ==
    /\ calc.op = "none"
    /\ SameType \/ NativeRhs
    /\ calc' = [calc EXCEPT
                  !.op = IF NativeRhs THEN "cmp_native" ELSE "cmp",
                  !.flags = [op \in CmpOps |->
                               IF NativeRhs
                               THEN compare_native(CalcType, op, calc.a, calc.b).flag
                               ELSE compare(CalcType, op, calc.a, calc.b).flag]]
    /\ UNCHANGED <<su, alive, nlive, faults, last, ret, tv, em>>

\* T x(b) for a b of another type.
Construction ==
    /\ ~SameType
    /\ Did("construct", construct(CalcType, RhsType, calc.b))

\* x = b for a b of another type.
Assignment ==
    /\ ~SameType
    /\ Did("assign", assign(CalcType, RhsType, calc.a, calc.b))

\* The receiver, unsigned, converted to the signed type of the right-hand
\* operand and back, by the constructors: U u(x); S s(u); U back(s).
RoundTrip ==
    /\ ~calc.sgn /\ calc.rk = "bounded" /\ calc.rsgn
    /\ calc.op = "none"
    /\ LET S == TypeOf(RhsType)
           there == construct(S, Bounded(CalcType), calc.a)
           back == construct(CalcType, Bounded(S), there.val)
       IN calc' = [calc EXCEPT !.op = "round_trip",
                     !.err = IF there.err # "" THEN there.err ELSE back.err,
                     !.mid = there.val,
                     !.val = IF there.err # "" THEN 0 ELSE back.val]
    /\ UNCHANGED <<su, alive, nlive, faults, last, ret, tv, em>>

\* The same by assignment to existing objects: S s; s = u; U back; back = s.
RoundTripAssign ==
    /\ ~calc.sgn /\ calc.rk = "bounded" /\ calc.rsgn
    /\ calc.op = "none"
    /\ LET S == TypeOf(RhsType)
           there == assign(S, Bounded(CalcType), 0, calc.a)
           back == assign(CalcType, Bounded(S), 0, there.self)
       IN calc' = [calc EXCEPT !.op = "round_trip_assign",
                     !.err = IF there.err # "" THEN there.err ELSE back.err,
                     !.mid = there.self,
                     !.val = IF there.err # "" THEN 0 ELSE back.self]
    /\ UNCHANGED <<su, alive, nlive, faults, last, ret, tv, em>>

\* x.checked_add(y), checked_sub, checked_mul: const member functions, the
\* receiver is not written.
CheckedOps ==
    /\ SameType /\ calc.bits <= 16
    /\ \E op \in {"checked_add", "checked_sub", "checked_mul"} :
         LET r == CASE op = "checked_add" -> checked_add(CalcType, calc.a, calc.b)
                    [] op = "checked_sub" -> checked_sub(CalcType, calc.a, calc.b)
                    [] op = "checked_mul" -> checked_mul(CalcType, calc.a, calc.b)
         IN Did(op, [err |-> r.err, val |-> r.val, self |-> calc.a, haz |-> r.haz])

\* The limits of a type and the exported constants I8_MIN ... U64_MAX are
\* read.  They depend on no operand and are read where both are zero.
Limits ==
    /\ calc.op = "none" /\ calc.a = 0 /\ calc.b = 0
    /\ \E T \in AllTypes :
         LET gmin == GlobalConstant(T, ClassMIN(T))
             gmax == GlobalConstant(T, ClassMAX(T))
         IN calc' = [calc EXCEPT !.op = "limits",
                       !.lim = [bits |-> T.bits, sgn |-> T.sgn,
                                min |-> ClassMIN(T), max |-> ClassMAX(T),
                                gmin |-> gmin.val, gmax |-> gmax.val,
                                err |-> IF gmin.err # "" THEN gmin.err ELSE gmax.err]]
    /\ UNCHANGED <<su, alive, nlive, faults, last, ret, tv, em>>

\* T r = x op y; x op= y; on copies of the same operands, in one build.
\* The product of two SInt<32> is not modelled.
PlainAndCompound ==
    /\ SameType
    /\ calc.op = "none"
    /\ \E op \in CompoundOps, ub \in UBOutcomes :
         /\ op = "*" => calc.bits <= 16
         /\ LET p == Plain(CalcType, op, calc.a, calc.b, ub)
                c == Compound(CalcType, op, calc.a, calc.b, ub)
            IN calc' = [calc EXCEPT !.op = "plain_and_compound",
                          !.err = c.err, !.val = c.val, !.self = c.self,
                          !.haz = c.haz,
                          !.pair = [op |-> op, first |-> p, second |-> c]]
    /\ UNCHANGED <<su, alive, nlive, faults, last, ret, tv, em>>

\* T y(b); x = b; for a b of another type.
ConstructAndAssign ==
    /\ ~SameType
    /\ calc.op = "none"
    /\ LET k == construct(CalcType, RhsType, calc.b)
           g == assign(CalcType, RhsType, calc.a, calc.b)
       IN calc' = [calc EXCEPT !.op = "construct_and_assign",
                     !.err = g.err, !.val = g.val, !.self = g.self,
                     !.pair = [op |-> "=", first |-> k, second |-> g]]
    /\ UNCHANGED <<su, alive, nlive, faults, last, ret, tv, em>>

NextOps ==
    \/ Limits
    \/ Plus
    \/ Minus
    \/ Times
    \/ Divide
    \/ Modulo
    \/ ModuloNative
    \/ DivideAssign
    \/ ModuloAssign
    \/ ShiftLeft
    \/ ShiftRight
    \/ ShiftLeftNative
    \/ ShiftRightNative
    \/ ShiftLeftAssign
    \/ ShiftRightAssign
    \/ Comparisons
    \/ Construction
    \/ Assignment
    \/ RoundTrip
    \/ RoundTripAssign
    \/ CheckedOps
    \/ PlainAndCompound
    \/ ConstructAndAssign

SpecOps == InitOps /\ [][NextOps]_vars

\* ------------------------------------------------- operators: the claims
\* x reduced modulo 2^W into the range of T (W = T.bits <= 16).
Reduce(T, x) ==
    LET m == 2 ^ T.bits
        r == x % m
    IN IF r > MAX(T) THEN r - m ELSE r

\* The mathematical a + b, a - b, a * b reduced modulo 2^W into the range
\* of T, computed without leaving the 32-bit integers.
SumMod(T, a, b) ==
    IF T.bits <= 16 THEN Reduce(T, a + b)
    ELSE IF b > 0 /\ a > INT32_MAX - b THEN (a - INT32_MAX) + (b - INT32_MAX) - 2
    ELSE IF b < 0 /\ a < INT32_MIN - b THEN (a + INT32_MAX) + (b + INT32_MAX) + 2
    ELSE a + b

DiffMod(T, a, b) ==
    IF T.bits <= 16 THEN Reduce(T, a - b)
    ELSE IF b < 0 /\ a > INT32_MAX + b THEN (a - INT32_MAX) - (b + INT32_MAX) - 2
    ELSE IF b > 0 /\ a < INT32_MIN + b THEN (a + INT32_MAX) - (b - INT32_MAX) + 2
    ELSE a - b

\* (x * y) mod m for x, y in 0..m-1, m <= 2^16, by doubling.
RECURSIVE MulMod(_, _, _)
MulMod(x, y, m) ==
    IF y = 0 THEN 0
    ELSE LET h == MulMod(x, y \div 2, m)
             d == (h + h) % m
         IN IF y % 2 = 1 THEN (d + x) % m ELSE d

ProdMod(T, a, b) ==
    LET m == 2 ^ T.bits IN Reduce(T, MulMod(a % m, b % m, m))

\* C11: the plain operators +, - and * never fail and return the
\* mathematical result reduced modulo 2^W into the type's range, for all
\* operand values, those whose sum or product leaves int included.
C11_PlainOperatorsWrap ==
    calc.op \in {"+", "-", "*"} =>
        /\ calc.err = ""
        /\ calc.val = CASE calc.op = "+" -> SumMod(CalcType, calc.a, calc.b)
                        [] calc.op = "-" -> DiffMod(CalcType, calc.a, calc.b)
                        [] calc.op = "*" -> ProdMod(CalcType, calc.a, calc.b)

\* -|x|, which every int has.
NegAbs(x) == IF x < 0 THEN x ELSE -x

\* q is a / b truncated toward zero and r the matching remainder.
TruncatedQuotient(a, b, q) ==
    LET r == a - q * b
    IN NegAbs(r) > NegAbs(b) /\ (r = 0 \/ (r < 0) = (a < 0))

MatchingRemainder(a, b, r) ==
    /\ NegAbs(r) > NegAbs(b)
    /\ r = 0 \/ (r < 0) = (a < 0)
    /\ (a - r) % (IF b < 0 /\ b # INT32_MIN THEN -b ELSE IF b < 0 THEN 2 ELSE b) = 0

\* C12: /, %, /= and %= fail with DivideByZero exactly when the divisor is
\* zero; signed / and /= fail with Overflow exactly for MIN / -1; in every
\* other case the operation succeeds with the quotient truncated toward
\* zero, respectively the matching remainder.
C12_DivisionAndModulo ==
    calc.op \in {"/", "/=", "%", "%=", "%n"} =>
        /\ calc.err = "DivideByZero" <=> calc.b = 0
        /\ calc.err = "Overflow" <=>
             (calc.op \in {"/", "/="} /\ calc.sgn
              /\ calc.a = MIN(CalcType) /\ calc.b = -1)
        /\ calc.err \in {"", "DivideByZero", "Overflow"}
        /\ (calc.err = "" /\ calc.op \in {"/", "/="}) =>
             TruncatedQuotient(calc.a, calc.b, calc.val)
        /\ (calc.err = "" /\ calc.op \in {"%", "%=", "%n"}) =>
             MatchingRemainder(calc.a, calc.b, calc.val)
        /\ (calc.err = "" /\ calc.op \in {"/=", "%="}) => calc.self = calc.val

\* C13: <<, >>, <<= and >>= fail with ShiftOutOfRange exactly when the
\* shift amount is negative or at least the operand's bit width, whether the
\* amount is a BoundedInt or a native integer, and succeed for every amount
\* in 0..W-1.
C13_ShiftRange ==
    calc.op \in {"<<", ">>", "<<=", ">>=", "<<n", ">>n"} =>
        /\ calc.err = "ShiftOutOfRange" <=> (calc.b < 0 \/ calc.b >= calc.bits)
        /\ (0 <= calc.b /\ calc.b < calc.bits) => calc.err = ""

\* The value a conversion stored: the constructed object's, or the
\* receiver's after the assignment.
Stored == IF calc.op = "construct" THEN calc.val ELSE calc.self

\* C14: converting an unsigned BoundedInt to a signed BoundedInt, by
\* construction or by assignment, fails with OutOfRange exactly when the
\* source exceeds the target's MAX, otherwise stores the same value, and
\* never produces a negative result.
C14_UnsignedToSigned ==
    (calc.op \in {"construct", "assign"} /\ calc.sgn
     /\ calc.rk = "bounded" /\ ~calc.rsgn) =>
        /\ calc.err = "OutOfRange" <=> calc.b > MAX(CalcType)
        /\ calc.err \in {"", "OutOfRange"}
        /\ calc.err = "" => (Stored = calc.b /\ Stored >= 0)

\* C15: converting a signed BoundedInt to an unsigned BoundedInt, by
\* construction or by assignment, fails with NegativeToUnsigned when the
\* source is negative, with OutOfRange when it is non-negative and exceeds
\* the target's MAX, and otherwise stores the same value.
C15_SignedToUnsigned ==
    (calc.op \in {"construct", "assign"} /\ ~calc.sgn
     /\ calc.rk = "bounded" /\ calc.rsgn) =>
        /\ calc.b < 0 => calc.err = "NegativeToUnsigned"
        /\ (calc.b >= 0 /\ calc.b > MAX(CalcType)) => calc.err = "OutOfRange"
        /\ (0 <= calc.b /\ calc.b <= MAX(CalcType)) =>
             (calc.err = "" /\ Stored = calc.b)

\* C16: constructing a BoundedInt from a BoundedInt of the same signedness
\* and another width, or from a native integer, fails with a range failure
\* exactly when the source lies outside [MIN, MAX] of the target and
\* otherwise yields the source value.
C16_ConstructionChecksRange ==
    (calc.op = "construct"
     /\ (calc.rk = "native" \/ (calc.rsgn = calc.sgn /\ calc.rbits # calc.bits))) =>
        /\ calc.err \in {"OutOfRange", "NegativeToUnsigned"} <=>
             (calc.b < MIN(CalcType) \/ calc.b > MAX(CalcType))
        /\ calc.err \in {"", "OutOfRange", "NegativeToUnsigned"}
        /\ calc.err = "" => calc.val = calc.b

\* C17: an unsigned value that is at most the MAX of the signed type of
\* width W converts to that signed type and back to its own type without
\* failure and with its value unchanged, for every pair of widths of the
\* unsigned and the signed type (the converting constructors).
C17_RoundTrip ==
    (calc.op = "round_trip" /\ calc.a <= SInt_MAX(calc.rbits)) =>
        /\ calc.err = ""
        /\ calc.mid = calc.a
        /\ calc.val = calc.a

C17_Witness ==
    /\ calc.op = "round_trip"
    /\ calc.bits = 16 /\ calc.rbits = 16
    /\ calc.a = SInt_MAX(16)
    /\ calc.err = "" /\ calc.val = calc.a

\* C18: when checked_add, checked_sub, checked_mul, a compound operator
\* (/=, %=, <<=, >>=) or an assignment from an out-of-range value fails, the
\* receiver's stored value is what it was before the call.
C18_NoPartialMutation ==
    (calc.op \in {"checked_add", "checked_sub", "checked_mul",
                  "/=", "%=", "<<=", ">>=", "assign"}
     /\ calc.err \notin {"", "Trap"}) =>
        calc.self = calc.a

C18_Witness ==
    /\ calc.op = "%="
    /\ ~calc.sgn
    /\ calc.a = MAX(CalcType) /\ calc.b = 0
    /\ calc.err = "DivideByZero"
    /\ calc.self = calc.a

\* C20: the six comparison operators compare numerically: with an operand
\* of the same type the stored values, with a native operand the stored
\* value and the operand reduced to the left operand's storage type; != is
\* the negation of == and exactly one of <, ==, > holds.
C20_Comparisons ==
    calc.op \in {"cmp", "cmp_native"} =>
        LET r == IF calc.op = "cmp" \/ calc.bits = 32 THEN calc.b
                 ELSE Reduce(CalcType, calc.b)
            f == calc.flags
        IN /\ f["=="] = (calc.a = r)
           /\ f["!="] = (calc.a # r)
           /\ f["<"] = (calc.a < r)
           /\ f["<="] = (calc.a <= r)
           /\ f[">"] = (calc.a > r)
           /\ f[">="] = (calc.a >= r)
           /\ f["!="] = ~f["=="]
           /\ \E only \in {"<", "==", ">"} :
                f[only] /\ \A other \in {"<", "==", ">"} \ {only} : ~f[other]

C20_Witness ==
    /\ calc.op = "cmp_native"
    /\ calc.bits = 8 /\ ~calc.sgn
    /\ calc.a = UINT8_MAX /\ calc.b = -1
    /\ calc.flags["=="]

\* Numbers of any size as 16-bit limbs, most significant first.
RECURSIVE AddLimbs(_, _, _)
AddLimbs(x, y, carry) ==
    IF x = <<>> THEN <<>>
    ELSE LET n == Len(x)
             t == x[n] + y[n] + carry
         IN Append(AddLimbs(SubSeq(x, 1, n - 1), SubSeq(y, 1, n - 1), t \div 65536),
                   t % 65536)

\* 2^k and 1 in n limbs.
Pow2Limbs(k, n) == [i \in 1..n |-> IF i = n - (k \div 16) THEN 2 ^ (k % 16) ELSE 0]
OneLimbs(n) == Pow2Limbs(0, n)

\* C19: for every width W in {8, 16, 32, 64} the signed MIN and MAX are
\* -2^(W-1) and 2^(W-1) - 1, the unsigned MIN and MAX are 0 and 2^W - 1, and
\* the exported constants hold the same values.  For the types wider than
\* the checker's integers the equations are on limbs: MAX + 1 = 2^(W-1)
\* (signed) or 2^W (unsigned), and MIN + 2^(W-1) = 2^W for the
\* two's-complement image of the signed MIN.
C19_Limits ==
    calc.op = "limits" =>
        LET l == calc.lim
            Bits == l.bits
            n == (Bits \div 16) + 1
        IN /\ l.err = ""
           /\ l.gmin = l.min
           /\ l.gmax = l.max
           /\ IF Wide([bits |-> Bits, sgn |-> l.sgn])
              THEN /\ Len(l.min) = n - 1 /\ Len(l.max) = n - 1
                   /\ IF l.sgn
                      THEN /\ AddLimbs(<<0>> \o l.max, OneLimbs(n), 0) = Pow2Limbs(Bits - 1, n)
                           /\ AddLimbs(<<0>> \o l.min, Pow2Limbs(Bits - 1, n), 0)
                                = Pow2Limbs(Bits, n)
                      ELSE /\ AddLimbs(<<0>> \o l.max, OneLimbs(n), 0) = Pow2Limbs(Bits, n)
                           /\ l.min = [i \in 1..(n - 1) |-> 0]
              ELSE IF Bits = 32
              THEN /\ l.max = (2 ^ 30 - 1) + 2 ^ 30
                   /\ l.min = -(2 ^ 30) - 2 ^ 30
              ELSE IF l.sgn
              THEN /\ l.min = -(2 ^ (Bits - 1))
                   /\ l.max = 2 ^ (Bits - 1) - 1
              ELSE /\ l.min = 0
                   /\ l.max = 2 ^ Bits - 1

C19_Witness ==
    /\ calc.op = "limits"
    /\ calc.lim.bits = 64 /\ calc.lim.sgn
    /\ calc.lim.gmin = INT64_MIN
    /\ calc.lim.gmax = INT64_MAX

C29_AssignMatchesConstruct ==
    calc.op = "construct_and_assign" =>
        LET k == calc.pair.first
            g == calc.pair.second
        IN /\ (g.err # "") <=> (k.err # "")
           /\ g.err = "" => g.self = k.self

\* ================================================================= Value
\* class Value (union.hpp): int type and an anonymous union of
\* F64 f, U8 ch, Value* val, I32 i, U32 u.  The members are numbered as the
\* discriminants the code gives them.
FLOAT_TYPE == 0
CHAR_TYPE == 1
VALUE_TYPE == 2
INT_KIND == 3
UINT_KIND == 4
Kinds == {FLOAT_TYPE, CHAR_TYPE, VALUE_TYPE, INT_KIND, UINT_KIND}
CheckedKinds == {FLOAT_TYPE, CHAR_TYPE, VALUE_TYPE}

\* The payloads tried for each kind: an F64, a U8, an address (0 is
\* nullptr), an I32 and a U32.
KindVals(k) ==
    CASE k = FLOAT_TYPE -> 0..MaxVal
      [] k = CHAR_TYPE -> (0..MaxVal) \cup {UINT8_MAX}
      [] k = VALUE_TYPE -> 0..MaxVal
      [] k = INT_KIND -> (-1..MaxVal) \cup {INT32_MIN, INT32_MAX}
      [] k = UINT_KIND -> (0..MaxVal) \cup {INT32_MAX}

\* Value(F64 value) : type(FLOAT_TYPE), f(value) {} and the four others.
Value_ctor(k, value) == [type |-> k, member |-> k, data |-> value]

\* void set_float(F64 value) { type = FLOAT_TYPE; f = value; } and the four
\* others.
\* A setter that writes the payload and leaves the discriminant.
Value_set_payload_only(obj, k, value) == [obj EXCEPT !.member = k, !.data = value]

Value_set(obj, k, value) == [type |-> k, member |-> k, data |-> value]

\* bool is_float() const { return type == FLOAT_TYPE; } and the four others.
Value_is(obj, k) == obj.type = k

\* The object of union member k read while member obj.member was written
\* last: the value itself, or a reinterpretation of its bytes.
Member(obj, k) ==
    IF obj.member = k THEN obj.data
    ELSE [view |-> k, of |-> obj.member, bytes |-> obj.data]

\* as_float(), as_char(), as_value_ptr(): throw std::runtime_error unless
\* type is the accessor's kind.
\* An accessor without the test of the discriminant.
Value_as_unchecked(obj, k) == [err |-> "", res |-> Member(obj, k)]

Value_as_checked(obj, k) ==
    IF obj.type # k THEN [err |-> "WrongKind", res |-> 0]
    ELSE [err |-> "", res |-> Member(obj, k)]

\* template<typename T> T as() const: *reinterpret_cast<const T*>(&f).
Value_as(obj, k) == [err |-> "", res |-> Member(obj, k)]

InitValue ==
    /\ su = [s \in Slots |-> Fresh("N")]
    /\ alive = {}
    /\ nlive = 0
    /\ faults = {}
    /\ last = [op |-> "init", dst |-> "a", src |-> "a", arg |-> Raw("N"),
               pre |-> [s \in Slots |-> Fresh("N")], palive |-> {}, pnl |-> 0,
               ev |-> 0, after |-> "-"]
    /\ ret = NoRet
    /\ calc = NoCalc
    /\ em = NoManager
    /\ tv = NoValue

\* The call op with kind k and argument arg has left the object obj and
\* returned or thrown r; wrote is the last payload written and its kind.
ValueDid(op, k, arg, obj, r, wrote) ==
    /\ tv' = [obj |-> obj, op |-> op, k |-> k, arg |-> arg, err |-> r.err,
              res |-> r.res, pre |-> tv.obj, wrote |-> wrote]
    /\ UNCHANGED <<su, alive, nlive, faults, last, ret, calc, em>>

NoResult == [err |-> "", res |-> 0]

ValueDefault ==
    ValueDid("Value", -1, 0, Value_default, NoResult, [k |-> -1, v |-> 0])

ValueConstruct ==
    \E k \in Kinds : \E v \in KindVals(k) :
        ValueDid("Value", k, v, Value_ctor(k, v), NoResult, [k |-> k, v |-> v])

ValueSet ==
    \E k \in Kinds : \E v \in KindVals(k) :
        ValueDid("set", k, v, Value_set(tv.obj, k, v), NoResult, [k |-> k, v |-> v])

ValueIs ==
    \E k \in Kinds :
        ValueDid("is", k, 0, tv.obj, [err |-> "", res |-> Value_is(tv.obj, k)], tv.wrote)

ValueAsChecked ==
    \E k \in CheckedKinds :
        ValueDid("as_checked", k, 0, tv.obj, Value_as_checked(tv.obj, k), tv.wrote)

ValueAs ==
    \E k \in Kinds :
        ValueDid("as", k, 0, tv.obj, Value_as(tv.obj, k), tv.wrote)

NextValue ==
    \/ ValueDefault
    \/ ValueConstruct
    \/ ValueSet
    \/ ValueIs
    \/ ValueAsChecked
    \/ ValueAs

SpecValue == InitValue /\ [][NextValue]_vars

\* ------------------------------------------------------ Value: the claims
\* C21: after construction from a payload of kind k, and after any sequence
\* of setters ending in the setter of kind k with value v, the discriminant
\* is k, is_k() is true and is_j() false for every other kind j, and the
\* payload read as kind k is v; the setter succeeds whatever the kind before.
C21_DiscriminantFollowsPayload ==
    /\ tv.wrote.k \in Kinds =>
         /\ tv.obj.type = tv.wrote.k
         /\ \A j \in Kinds : Value_is(tv.obj, j) = (j = tv.wrote.k)
         /\ Value_as(tv.obj, tv.wrote.k).res = tv.wrote.v
         /\ tv.wrote.k \in CheckedKinds =>
              Value_as_checked(tv.obj, tv.wrote.k) = [err |-> "", res |-> tv.wrote.v]
    /\ tv.op \in {"Value", "set"} => tv.err = ""
    /\ (tv.op = "is" /\ tv.wrote.k \in Kinds) => tv.res = (tv.k = tv.wrote.k)
    /\ (tv.op \in {"as", "as_checked"} /\ tv.k = tv.wrote.k) =>
         (tv.err = "" /\ tv.res = tv.wrote.v)

C21_Witness ==
    /\ tv.op = "set" /\ tv.k = CHAR_TYPE /\ tv.arg = UINT8_MAX
    /\ tv.pre.type = FLOAT_TYPE
    /\ tv.obj.type = CHAR_TYPE /\ tv.obj.data = UINT8_MAX

\* C22: a checked accessor fails with WrongKind exactly when the
\* discriminant is not its kind (always on a default-constructed value) and
\* otherwise returns the stored payload; it leaves the discriminant and the
\* payload as they were, whether it fails or not.
C22_CheckedAccessors ==
    tv.op = "as_checked" =>
        /\ (tv.err = "WrongKind") = (tv.pre.type # tv.k)
        /\ tv.err \in {"", "WrongKind"}
        /\ tv.err = "" => tv.res = tv.wrote.v
        /\ tv.pre.type = -1 => tv.err = "WrongKind"
        /\ tv.obj = tv.pre

C22_Witness ==
    /\ tv.op = "as_checked" /\ tv.k = CHAR_TYPE
    /\ tv.pre.type = FLOAT_TYPE
    /\ tv.err = "WrongKind"
    /\ tv.obj = tv.pre

\* ================================================================== FInt
\* FInt<Bits> (float.hpp), storage_type float for 32 bits and double for
\* 64.  A floating value is NaN, an infinity, a zero (both signed) or a
\* finite value s * 2^e; a format holds the exponents -MaxExp..MaxExp, so
\* that double holds finite values that float does not.
MaxExp(Bits) == IF Bits = 32 THEN Exp32 ELSE Exp32 + ExpMore

NaN == [c |-> "nan", s |-> 1, e |-> 0]
Inf(s) == [c |-> "inf", s |-> s, e |-> 0]
Zero(s) == [c |-> "zero", s |-> s, e |-> 0]
Fin(s, e) == [c |-> "fin", s |-> s, e |-> e]

Floats(Bits) ==
    {NaN} \cup {Inf(s) : s \in {-1, 1}} \cup {Zero(s) : s \in {-1, 1}}
    \cup {Fin(s, e) : s \in {-1, 1}, e \in (-MaxExp(Bits))..MaxExp(Bits)}

\* The result s * 2^e rounded to the format: overflow to infinity,
\* underflow to zero.
Rounded(Bits, s, e) ==
    IF e > MaxExp(Bits) THEN Inf(s)
    ELSE IF e < -MaxExp(Bits) THEN Zero(s)
    ELSE Fin(s, e)

\* static_cast<storage_type>(x) of a floating x.
FCast(Bits, x) == IF x.c = "fin" THEN Rounded(Bits, x.s, x.e) ELSE x

\* static_cast<storage_type>(n) of an int n = 0, +-1, +-2.
FromInt(n) ==
    IF n = 0 THEN Zero(1)
    ELSE Fin(IF n < 0 THEN -1 ELSE 1, IF n \in {-1, 1} THEN 0 ELSE 1)

\* x == 0.0 of the language: true of both zeros, false of NaN.
IsZero(x) == x.c = "zero"

\* The built-in x / y (IEEE 754).
FDivide(Bits, x, y) ==
    IF x.c = "nan" \/ y.c = "nan" THEN NaN
    ELSE IF x.c = "inf" THEN (IF y.c = "inf" THEN NaN ELSE Inf(x.s * y.s))
    ELSE IF y.c = "inf" THEN Zero(x.s * y.s)
    ELSE IF y.c = "zero" THEN (IF x.c = "zero" THEN NaN ELSE Inf(x.s * y.s))
    ELSE IF x.c = "zero" THEN Zero(x.s * y.s)
    ELSE Rounded(Bits, x.s * y.s, x.e - y.e)

\* std::fmod(x, y): NaN for an infinite x or a zero y, x for an infinite y,
\* and otherwise the remainder with the sign of x.
fmod(x, y) ==
    IF x.c = "nan" \/ y.c = "nan" THEN NaN
    ELSE IF x.c = "inf" \/ y.c = "zero" THEN NaN
    ELSE IF y.c = "inf" \/ x.c = "zero" THEN x
    ELSE IF x.e >= y.e THEN Zero(x.s) ELSE x

FRes(err, val, self) == [err |-> err, val |-> val, self |-> self, haz |-> {}]

\* FInt operator/(const FInt& other) const
FInt_div_unchecked(Bits, value, other) ==
    LET q == FDivide(Bits, value, other) IN FRes("", q, value)

FInt_div(Bits, value, other) ==
    IF IsZero(other) THEN FRes("DivideByZero", Zero(1), value)
    ELSE LET q == FDivide(Bits, value, other) IN FRes("", q, value)

\* FInt operator%(const FInt& other) const
FInt_mod(Bits, value, other) ==
    IF IsZero(other) THEN FRes("DivideByZero", Zero(1), value)
    ELSE FRes("", fmod(value, other), value)

\* template<typename T> FInt operator/(T other) const: other == 0 is tested
\* in T, the division is by static_cast<storage_type>(other).
FInt_div_native(Bits, value, other, conv) ==
    IF IsZero(other) THEN FRes("DivideByZero", Zero(1), value)
    ELSE FRes("", FDivide(Bits, value, conv), value)

\* FInt& operator/=(const FInt& other)
FInt_div_assign(Bits, value, other) ==
    IF IsZero(other) THEN FRes("DivideByZero", Zero(1), value)
    ELSE LET q == FDivide(Bits, value, other) IN FRes("", q, q)

\* FInt& operator%=(const FInt& other)
FInt_mod_assign(Bits, value, other) ==
    IF IsZero(other) THEN FRes("DivideByZero", Zero(1), value)
    ELSE LET r == fmod(value, other) IN FRes("", r, r)

\* The right-hand operands: an FInt of the same width, or a native double,
\* float or int (as a floating value, with the value it converts to).
NativeOperands(Bits) ==
    {[rk |-> "double", b |-> x, conv |-> FCast(Bits, x)] : x \in Floats(64)}
    \cup {[rk |-> "float", b |-> x, conv |-> x] : x \in Floats(32)}
    \cup {[rk |-> "int", b |-> FromInt(n), conv |-> FromInt(n)] : n \in -2..2}

InitFloat ==
    /\ su = [s \in Slots |-> Fresh("N")]
    /\ alive = {}
    /\ nlive = 0
    /\ faults = {}
    /\ last = [op |-> "init", dst |-> "a", src |-> "a", arg |-> Raw("N"),
               pre |-> [s \in Slots |-> Fresh("N")], palive |-> {}, pnl |-> 0,
               ev |-> 0, after |-> "-"]
    /\ ret = NoRet
    /\ tv = NoValue
    /\ em = NoManager
    /\ \E Bits \in {32, 64} : \E a \in Floats(Bits) :
         \E r \in {[rk |-> "same", b |-> x, conv |-> x] : x \in Floats(Bits)}
                  \cup NativeOperands(Bits) :
           calc = [op |-> "none", bits |-> Bits, a |-> a, rk |-> r.rk, b |-> r.b,
                   conv |-> r.conv, err |-> "", val |-> Zero(1), self |-> a,
                   haz |-> {}]

FloatDivide == calc.rk = "same" /\ Did("/", FInt_div(calc.bits, calc.a, calc.b))
FloatModulo == calc.rk = "same" /\ Did("%", FInt_mod(calc.bits, calc.a, calc.b))
FloatDivideNative ==
    calc.rk # "same" /\ Did("/n", FInt_div_native(calc.bits, calc.a, calc.b, calc.conv))
FloatDivideAssign == calc.rk = "same" /\ Did("/=", FInt_div_assign(calc.bits, calc.a, calc.b))
FloatModuloAssign == calc.rk = "same" /\ Did("%=", FInt_mod_assign(calc.bits, calc.a, calc.b))

NextFloat ==
    \/ FloatDivide
    \/ FloatModulo
    \/ FloatDivideNative
    \/ FloatDivideAssign
    \/ FloatModuloAssign

SpecFloat == InitFloat /\ [][NextFloat]_vars

\* ------------------------------------------------------- FInt: the claims
\* C23: for both widths /, %, /= and %= (and / with a native divisor) fail
\* with DivideByZero exactly when the divisor is zero, whatever the
\* dividend; the call with a zero divisor returns no value, so no infinity
\* and no NaN; a failing /= or %= leaves the receiver as it was.
C23_FloatDivideByZero ==
    calc.op \in {"/", "%", "/=", "%=", "/n"} =>
        /\ (calc.err = "DivideByZero") = IsZero(calc.b)
        /\ calc.err \in {"", "DivideByZero"}
        /\ calc.err # "" => calc.self = calc.a
        /\ (calc.err = "" /\ calc.op = "/=") => calc.self = calc.val

C23_Witness ==
    /\ calc.op = "/=" /\ calc.bits = 32
    /\ calc.a = Zero(1) /\ calc.b = Zero(-1)
    /\ calc.err = "DivideByZero"
    /\ calc.self = calc.a

\* ========================================================== ErrorManager
\* class ErrorManager (error.hpp, the header that defines its member
\* functions).  A stored diagnostic is [severity, message]; message stands
\* for the message, the location and the error code, which travel together.
Messages == {"m1"}
TooManyErrors == "F001: Too many errors emitted, stopping compilation"

\* void report(std::unique_ptr<CompilerError> error) up to its last
\* statement: the manager it leaves, and whether the limit test calls
\* report(ErrorSeverity::FATAL, "Too many errors ...") again.
report(m, severity, message) ==
    LET sev == IF m.warningsAsErrors /\ severity = "WARNING" THEN "ERROR" ELSE severity
        counted == [m EXCEPT
                      !.warningCount = IF sev = "WARNING" THEN @ + 1 ELSE @,
                      !.errorCount = IF sev = "ERROR" THEN @ + 1 ELSE @,
                      !.fatalCount = IF sev = "FATAL" THEN @ + 1 ELSE @,
                      !.errors = Append(@, [severity |-> sev, message |-> message])]
    IN IF m.suppressWarnings /\ sev = "WARNING"
       THEN [m |-> m, again |-> FALSE]
       ELSE [m |-> counted,
             again |-> counted.errorCount + counted.fatalCount >= counted.maxErrors]

\* Statistics.
getNoteCount(m) == Len(m.errors) - (m.warningCount + m.errorCount + m.fatalCount)
getErrorCount(m) == m.errorCount + m.fatalCount
getWarningCount(m) == m.warningCount
getTotalCount(m) == Len(m.errors)
hasErrors(m) == m.errorCount > 0 \/ m.fatalCount > 0
hasFatal(m) == m.fatalCount > 0

\* void clear()
clear_keeps_fatal(m) ==
    [m EXCEPT !.errors = <<>>, !.warningCount = 0, !.errorCount = 0]

clear(m) ==
    [m EXCEPT !.errors = <<>>, !.warningCount = 0, !.errorCount = 0, !.fatalCount = 0]

\* Settings.
setWarningsAsErrors(m, value) == [m EXCEPT !.warningsAsErrors = value]
setSuppressWarnings(m, value) == [m EXCEPT !.suppressWarnings = value]
setMaxErrors(m, max) == [m EXCEPT !.maxErrors = max]

InitManager ==
    /\ su = [s \in Slots |-> Fresh("N")]
    /\ alive = {}
    /\ nlive = 0
    /\ faults = {}
    /\ last = [op |-> "init", dst |-> "a", src |-> "a", arg |-> Raw("N"),
               pre |-> [s \in Slots |-> Fresh("N")], palive |-> {}, pnl |-> 0,
               ev |-> 0, after |-> "-"]
    /\ ret = NoRet
    /\ calc = NoCalc
    /\ tv = NoValue
    /\ em = NoManager

ManagerFrame == UNCHANGED <<su, alive, nlive, faults, last, ret, calc, tv>>

\* The manager is between two calls of its caller.
Idle == em.depth = 0 /\ ~em.crashed

\* note(), warning(), error(), fatal() and report() called by the caller.
Report ==
    /\ Idle
    /\ em.asked["NOTE"] + em.asked["WARNING"] + em.asked["ERROR"] + em.asked["FATAL"]
         < MaxDiag
    /\ \E severity \in Severities, message \in Messages :
         LET r == report(em.m, severity, message)
         IN em' = [em EXCEPT !.m = r.m, !.depth = IF r.again THEN 1 ELSE 0,
                     !.op = "report", !.severity = severity, !.message = message,
                     !.pre = em.m,
                     !.asked = [@ EXCEPT ![severity] = @ + 1],
                     !.appended = 0]
    /\ ManagerFrame

\* The activation of report() that the limit test of the activation before
\* it has called: it runs to its own limit test, unless no stack is left.
ReportAgain ==
    /\ em.depth > 0 /\ ~em.crashed
    /\ IF em.depth >= MaxDepth
       THEN em' = [em EXCEPT !.crashed = TRUE]
       ELSE LET r == report(em.m, "FATAL", TooManyErrors)
            IN em' = [em EXCEPT !.m = r.m,
                        !.depth = IF r.again THEN @ + 1 ELSE 0,
                        !.appended = @ + 1]
    /\ ManagerFrame

Clear ==
    /\ Idle
    /\ em' = [em EXCEPT !.m = clear(em.m), !.op = "clear", !.pre = em.m,
                !.asked = [v \in Severities |-> 0], !.appended = 0,
                !.moved = FALSE]
    /\ ManagerFrame

Settings ==
    /\ Idle
    /\ \/ \E n \in 1..MaxLimit :
            em' = [em EXCEPT !.m = setMaxErrors(em.m, n), !.op = "setMaxErrors",
                     !.pre = em.m, !.moved = TRUE]
       \/ em' = [em EXCEPT !.m = setMaxErrors(em.m, DefaultMaxErrors),
                   !.op = "setMaxErrors", !.pre = em.m, !.moved = TRUE]
       \/ \E value \in BOOLEAN :
            em' = [em EXCEPT !.m = setSuppressWarnings(em.m, value),
                     !.op = "setSuppressWarnings", !.pre = em.m]
       \/ \E value \in BOOLEAN :
            em' = [em EXCEPT !.m = setWarningsAsErrors(em.m, value),
                     !.op = "setWarningsAsErrors", !.pre = em.m]
    /\ ManagerFrame

NextManager ==
    \/ Report
    \/ ReportAgain
    \/ Clear
    \/ Settings

SpecManager == InitManager /\ [][NextManager]_vars

\* ----------------------------------------------- ErrorManager: the claims
\* The stored diagnostics of severity v.
Stored_of(m, v) == Cardinality({i \in 1..Len(m.errors) : m.errors[i].severity = v})

\* The diagnostic the caller's last report stored, if it stored one.
Recorded == em.m.errors[Len(em.pre.errors) + 1]

\* C24: after setMaxErrors(n) and clear(), hasFatal() is false while fewer
\* than n errors have been reported; the report of the n-th error returns,
\* and then hasFatal() is true and getErrorCount() is n.
C24_ErrorLimit ==
    (~em.moved /\ em.asked["FATAL"] = 0 /\ em.asked["WARNING"] = 0) =>
        /\ em.asked["ERROR"] < em.m.maxErrors => ~hasFatal(em.m)
        /\ em.asked["ERROR"] >= em.m.maxErrors =>
             /\ ~em.crashed
             /\ Idle => (hasFatal(em.m) /\ getErrorCount(em.m) = em.m.maxErrors)

\* C25: while suppressWarnings is on, a reported WARNING stores nothing and
\* changes no counter; a NOTE or an ERROR reported then is stored and
\* counted.
C25_SuppressedWarnings ==
    (em.op = "report" /\ em.pre.suppressWarnings) =>
        IF em.severity = "WARNING"
        THEN /\ em.m.errors = em.pre.errors
             /\ getWarningCount(em.m) = getWarningCount(em.pre)
             /\ getErrorCount(em.m) = getErrorCount(em.pre)
             /\ getTotalCount(em.m) = getTotalCount(em.pre)
        ELSE /\ Len(em.m.errors) > Len(em.pre.errors)
             /\ Recorded = [severity |-> em.severity, message |-> em.message]
             /\ em.severity = "NOTE" => getNoteCount(em.m) = getNoteCount(em.pre) + 1
             /\ em.severity = "ERROR" => getErrorCount(em.m) > getErrorCount(em.pre)

\* C26: while warningsAsErrors is on, a reported WARNING is recorded with
\* severity ERROR and the message, location and code it came with: the
\* report returns with getErrorCount() one more than before,
\* getWarningCount() as before and hasErrors() true.
C26_WarningsAsErrors ==
    (em.op = "report" /\ em.severity = "WARNING" /\ em.pre.warningsAsErrors) =>
        /\ ~em.crashed
        /\ Len(em.m.errors) > Len(em.pre.errors)
        /\ Recorded = [severity |-> "ERROR", message |-> em.message]
        /\ getWarningCount(em.m) = getWarningCount(em.pre)
        /\ hasErrors(em.m)
        /\ Idle => getErrorCount(em.m) = getErrorCount(em.pre) + 1

\* C27: every call of report returns, after the manager has appended at most
\* one 'too many errors' diagnostic for the caller's report.
C27_ReportReturns ==
    /\ ~em.crashed
    /\ em.appended <= 1

\* C30: getTotalCount() is the number of stored diagnostics and the sum of
\* the stored notes, warnings and errors (fatal ones included), each getter
\* giving the number stored of its severity; what is stored is what the
\* caller reported since the last clear() and was not suppressed, and what
\* the manager appended; clear() empties the list and zeroes every counter,
\* and leaves the three settings.
C30_CountsMatchStored ==
    /\ getTotalCount(em.m) = Len(em.m.errors)
    /\ getTotalCount(em.m)
         = getNoteCount(em.m) + getWarningCount(em.m) + getErrorCount(em.m)
    /\ getNoteCount(em.m) = Stored_of(em.m, "NOTE")
    /\ getWarningCount(em.m) = Stored_of(em.m, "WARNING")
    /\ getErrorCount(em.m) = Stored_of(em.m, "ERROR") + Stored_of(em.m, "FATAL")
    /\ hasErrors(em.m) = (Stored_of(em.m, "ERROR") + Stored_of(em.m, "FATAL") > 0)
    /\ hasFatal(em.m) = (Stored_of(em.m, "FATAL") > 0)
    /\ Stored_of(em.m, "NOTE") = em.asked["NOTE"]
    /\ Stored_of(em.m, "WARNING") + Stored_of(em.m, "ERROR")
         <= em.asked["WARNING"] + em.asked["ERROR"]
    /\ Stored_of(em.m, "ERROR") >= em.asked["ERROR"]
    /\ Stored_of(em.m, "FATAL") >= em.asked["FATAL"]
    /\ em.op = "clear" =>
         /\ em.m.errors = <<>>
         /\ getTotalCount(em.m) = 0 /\ getNoteCount(em.m) = 0
         /\ getWarningCount(em.m) = 0 /\ getErrorCount(em.m) = 0
         /\ ~hasErrors(em.m) /\ ~hasFatal(em.m)
         /\ em.m.maxErrors = em.pre.maxErrors
         /\ em.m.suppressWarnings = em.pre.suppressWarnings
         /\ em.m.warningsAsErrors = em.pre.warningsAsErrors

C30_Witness ==
    /\ em.op = "clear"
    /\ Len(em.pre.errors) = MaxDiag
    /\ em.pre.fatalCount > 0 /\ em.pre.warningCount > 0
    /\ em.pre.suppressWarnings
    /\ em.m.errors = <<>> /\ em.m.suppressWarnings

====
